---------------------------- MODULE Spec2Model ----------------------------
(***************************************************************************)
(* Model of the whatidid discovery pipeline: the response cache            *)
(* (src/src/cache.ts) and the GitHub client (src/unnamed/part_000, the     *)
(* GitHubClient class with options, lines 878-1492).                       *)
(*                                                                         *)
(* Strings whose structure the code inspects (branch names, logins, repo  *)
(* full names, cache keys) are sequences of one-character strings.         *)
(* Instants are integers in milliseconds.                                  *)
(***************************************************************************)
EXTENDS Integers, Sequences, FiniteSets, TLC

VARIABLES
    \* ---- Response cache (cache.ts) ----
    files,        \* cache directory: the set of cache files
    dirExists,    \* whether the cache directory exists
    now,          \* Date.now()
    enabled,      \* Cache.enabled of the global cache instance
    lastGet,      \* observation of the last Cache.get call
    \* ---- GitHubClient.request (part_000) ----
    reqPc,            \* position of the current request call
    retryCount,       \* retryCount argument of the running request invocation
    attempts,         \* HTTP attempts (fetch calls) made by the current request call
    sleeps,           \* backoff sleeps of the current request call
    reqResult,        \* how the last request call ended
    lastRequestTime,  \* GitHubClient.lastRequestTime
    requestCount,     \* GitHubClient.requestCount
    inFlight,         \* HTTP requests sent and not yet answered
    \* ---- GitHubClient.fetchAllMergedPRs (part_000) ----
    tz,           \* local time zone offset of the process, ms east of UTC
    remote,       \* the remote API's answers, fixed during a behaviour
    options,      \* GitHubClientOptions plus (username, since, until) of the run
    pc,           \* position in fetchAllMergedPRs
    searchPRs,    \* result of fetchPRsViaGlobalSearch
    allPRs,       \* allPRs before deduplication
    result,       \* the returned list
    error,        \* status of the error fetchAllMergedPRs failed with, or 200
    swallowed,    \* fatal request errors caught and discarded during the run
    cacheHit,     \* whether the run's global search was served from the cache
    requests,     \* the requests and cache calls issued during the run, in order
    \* ---- groupFeatures and mergeFeatures (grouping.ts) ----
    features,     \* the Feature list handed to groupFeatures, or to mergeFeatures
    summaries,    \* the ProjectSummary list groupFeatures returned
    mergeOut,     \* the Feature mergeFeatures returned
    gpc,          \* "idle", "grouped" after groupFeatures, "merged" after mergeFeatures
    \* ---- runGenerate (part_004) with the summarizer (part_002) ----
    cliPc,        \* position in runGenerate: "idle", "fetching", "summarizing",
                  \* "grouping", "exited"
    cliOpts,      \* [dryRun, fetchFails, writeFails]: --dry-run, and whether the
                  \* fetch and the writing of the report fail
    cliPRs,       \* the PullRequests fetchAllMergedPRs hands to runGenerate
    cliPos,       \* [batch, fallback]: first PR of the current batch, and the PR of
                  \* the batch the fallback loop is at (0 outside the loop)
    llm,          \* [calls, failed, last]: calls of LLMClient.complete, those that
                  \* threw, and the answer to the last one
    exitCode,     \* exit code of the process, NoExit while it runs
    \* ---- callers that share one client, and loops taken step by step ----
    callers,      \* concurrent callers of request: caller -> [pc, wake, calls]
    sent,         \* the instants at which fetch() was called, in order
    pages,        \* fetchAllPages: [pc, url, results, requested, returned, site]
    clustering,   \* mergeSimilarFeatures: [pc, input, remaining, merged, current, i, ...]
    searchLoop    \* a page-numbered search loop: [pc, loop, page, items, requests, ...]

cacheVars == <<files, dirExists, now, enabled, lastGet>>
reqVars   == <<reqPc, retryCount, attempts, sleeps, reqResult, lastRequestTime, requestCount,
               inFlight>>
discVars  == <<tz, remote, options, pc, searchPRs, allPRs, result, error, swallowed,
               cacheHit, requests>>
grpVars   == <<features, summaries, mergeOut, gpc>>
cliVars   == <<cliPc, cliOpts, cliPRs, cliPos, llm, exitCode>>
auxVars   == <<callers, sent, pages, clustering, searchLoop>>
vars      == <<files, dirExists, now, enabled, lastGet,
               reqPc, retryCount, attempts, sleeps, reqResult, lastRequestTime, requestCount,
               inFlight,
               tz, remote, options, pc, searchPRs, allPRs, result, error, swallowed,
               cacheHit, requests,
               features, summaries, mergeOut, gpc,
               cliPc, cliOpts, cliPRs, cliPos, llm, exitCode,
               callers, sent, pages, clustering, searchLoop>>

-----------------------------------------------------------------------------
(* Strings                                                                 *)

LowerLetters == <<"a","b","c","d","e","f","g","h","i","j","k","l","m",
                  "n","o","p","q","r","s","t","u","v","w","x","y","z">>
UpperLetters == <<"A","B","C","D","E","F","G","H","I","J","K","L","M",
                  "N","O","P","Q","R","S","T","U","V","W","X","Y","Z">>
Digits       == <<"0","1","2","3","4","5","6","7","8","9">>
HexDigits    == <<"0","1","2","3","4","5","6","7","8","9","a","b","c","d","e","f">>

IndexIn(c, s) == CHOOSE i \in 1..Len(s) : s[i] = c
Occurs(c, s)  == \E i \in 1..Len(s) : s[i] = c

\* String.prototype.charCodeAt for the characters that occur in the model
Punctuation == <<"#", "&", "-", ".", "/", ":", "=", "_">>
CodeOf(c) ==
    IF Occurs(c, LowerLetters) THEN 96 + IndexIn(c, LowerLetters)
    ELSE IF Occurs(c, UpperLetters) THEN 64 + IndexIn(c, UpperLetters)
    ELSE IF Occurs(c, Digits) THEN 47 + IndexIn(c, Digits)
    ELSE CASE c = "#" -> 35 [] c = "&" -> 38 [] c = "-" -> 45 [] c = "." -> 46
           [] c = "/" -> 47 [] c = ":" -> 58 [] c = "=" -> 61 [] c = "_" -> 95
Range(seq) == {seq[i] : i \in 1..Len(seq)}
CharCodes ==
    [c \in Range(LowerLetters) \cup Range(UpperLetters) \cup Range(Digits)
            \cup Range(Punctuation) |-> CodeOf(c)]
CharCode(c) == CharCodes[c]

\* String.prototype.toLowerCase
ToLowerCase(s) ==
    [i \in 1..Len(s) |->
        IF Occurs(s[i], UpperLetters) THEN LowerLetters[IndexIn(s[i], UpperLetters)]
        ELSE s[i]]

\* String.prototype.startsWith
StartsWith(s, p) == Len(s) >= Len(p) /\ SubSeq(s, 1, Len(p)) = p

\* s.split('/')[0] and s.split('/')[1] (undefined is modelled as "undefined")
SlashPositions(s) == {i \in 1..Len(s) : s[i] = "/"}
Min(S) == CHOOSE x \in S : \A y \in S : x <= y
Max(S) == CHOOSE x \in S : \A y \in S : x >= y
SplitFirst(s) ==
    IF SlashPositions(s) = {} THEN s ELSE SubSeq(s, 1, Min(SlashPositions(s)) - 1)
SplitSecond(s) ==
    IF SlashPositions(s) = {} THEN "undefined"
    ELSE LET p == Min(SlashPositions(s))
             rest == SubSeq(s, p + 1, Len(s))
         IN  IF SlashPositions(rest) = {} THEN rest
             ELSE SubSeq(rest, 1, Min(SlashPositions(rest)) - 1)

\* a.localeCompare(b) < 0 for strings of lower-case ASCII letters
RECURSIVE LocaleLess(_, _)
LocaleLess(a, b) ==
    IF a = <<>> THEN b # <<>>
    ELSE IF b = <<>> THEN FALSE
    ELSE IF a[1] # b[1] THEN CharCode(a[1]) < CharCode(b[1])
    ELSE LocaleLess(Tail(a), Tail(b))

RECURSIVE Join(_, _)
Join(parts, sep) ==
    IF parts = <<>> THEN <<>>
    ELSE IF Len(parts) = 1 THEN parts[1]
    ELSE parts[1] \o sep \o Join(Tail(parts), sep)

-----------------------------------------------------------------------------
(* Response cache: src/src/cache.ts                                        *)

HourMs       == 60 * 60 * 1000
CACHE_TTL_MS == 24 * 60 * 60 * 1000
CACHE_VERSION == 1
LegacyVersion == CACHE_VERSION - 1      \* version tag of a file left by another schema version

MaxClock  == 25         \* the clock stops advancing after this many hours
TickHours == {24, 25}   \* hours that pass between two cache operations
RunTickHours == {25}    \* hours that pass between two runs

\* 32-bit integers are pairs <<high 16 bits, low 16 bits>>
Word == 2^16

\* for (let i = 0; i < str.length; i++) { hash = ((hash << 5) - hash) + char;
\* hash = hash & hash }: the hash after characters lo..hi, starting from h.
\* The range is folded in halves, left half first.
RECURSIVE HashRange(_, _, _, _)
HashRange(h, str, lo, hi) ==
    IF lo > hi THEN h
    ELSE IF lo = hi
    THEN LET t == 31 * h[2] + CharCode(str[lo])
         IN  <<(31 * h[1] + (t \div Word)) % Word, t % Word>>
    ELSE LET mid  == (lo + hi) \div 2
             left == HashRange(h, str, lo, mid)
         IN  IF left[1] >= 0 THEN HashRange(left, str, mid + 1, hi) ELSE left

\* Math.abs of the signed 32-bit value
AbsInt32(h) ==
    IF h[1] < Word \div 2 THEN h
    ELSE <<(Word - 1 - h[1] + (IF h[2] = 0 THEN 1 ELSE 0)) % Word, (Word - h[2]) % Word>>

\* Number.prototype.toString(16) of a non-negative value below 2^32
Nibbles(w) ==
    <<HexDigits[(w \div 4096) + 1], HexDigits[((w \div 256) % 16) + 1],
      HexDigits[((w \div 16) % 16) + 1], HexDigits[(w % 16) + 1]>>
RECURSIVE StripZeros(_)
StripZeros(s) ==
    IF Len(s) > 1 /\ s[1] = "0" THEN StripZeros(Tail(s)) ELSE s
ToHex(h) == StripZeros(Nibbles(h[1]) \o Nibbles(h[2]))

\* Object.entries(params).sort(([a], [b]) => a.localeCompare(b))
RECURSIVE SortKeys(_)
SortKeys(S) ==
    IF S = {} THEN <<>>
    ELSE LET m == CHOOSE k \in S : \A o \in S \ {k} : LocaleLess(k, o)
         IN  <<m>> \o SortKeys(S \ {m})

generateKey(prefix, params) ==
    LET keys == SortKeys(DOMAIN params)
        pairs == [i \in 1..Len(keys) |-> keys[i] \o <<"=">> \o params[keys[i]]]
        sortedParams == Join(pairs, <<"&">>)
        str == prefix \o <<":">> \o sortedParams
        hash == HashRange(<<0, 0>>, str, 1, Len(str))
    IN  prefix \o <<"_">> \o ToHex(AbsInt32(hash))

\* join(homedir(), '.whatidid-cache'), with ~ for the home directory
CACHE_DIR == <<"~","/",".","w","h","a","t","i","d","i","d","-","c","a","c","h","e">>

\* join(CACHE_DIR, `${key}.json`)
getCachePath(key) == CACHE_DIR \o <<"/">> \o key \o <<".","j","s","o","n">>

\* new Cache(enabled): whether the directory exists after the constructor,
\* which calls ensureCacheDir() only if enabled
CacheNew(isEnabled, dir) == isEnabled \/ dir

Miss == [hit |-> FALSE, data |-> <<>>]

\* The cache directory is a set of files, at most one per path
FileAt(store, path) == CHOOSE f \in store : f.path = path
Exists(store, path) == \E f \in store : f.path = path

\* Variant: an entry expires as soon as its age reaches the TTL
Expired_Strict(entry, t) == t - entry.timestamp >= CACHE_TTL_MS

\* Date.now() - entry.timestamp > CACHE_TTL_MS
Expired(entry, t) == t - entry.timestamp > CACHE_TTL_MS

\* Cache.get: the value returned when the clock reads t
CacheGet(isEnabled, store, t, prefix, params) ==
    IF ~isEnabled THEN Miss
    ELSE LET path == getCachePath(generateKey(prefix, params))
         IN  IF ~Exists(store, path) THEN Miss
             ELSE IF FileAt(store, path).version # CACHE_VERSION THEN Miss
             ELSE IF Expired(FileAt(store, path), t) THEN Miss
             ELSE [hit |-> TRUE, data |-> FileAt(store, path).data]

\* Cache.set: the cache directory after the call.  writeOk is whether
\* Bun.write succeeded; a failed write is ignored.  The field by records
\* which call wrote the file; nothing in the program reads it.
CacheSet(isEnabled, store, t, prefix, params, data, writeOk) ==
    IF ~isEnabled \/ ~writeOk THEN store
    ELSE LET path == getCachePath(generateKey(prefix, params))
             entry == [path |-> path, data |-> data, timestamp |-> t,
                       version |-> CACHE_VERSION,
                       by |-> [prefix |-> prefix, params |-> params]]
         IN  {f \in store : f.path # path} \cup {entry}

\* Cache.clear
CacheClear(store) == {}

-----------------------------------------------------------------------------
(* GitHub client: src/unnamed/part_000, lines 878-1492                     *)
(*                                                                         *)
(* The remote is a record                                                  *)
(*   prs    : repo full name -> the closed-PR listing of the repository,   *)
(*            a sequence of GitHubPullRequest [number, login, merged_at,   *)
(*            base], in the order the remote lists them                    *)
(*   hits   : the items the search endpoint returns, a sequence of         *)
(*            [repo, number]; the search index is free to return any item  *)
(*   orgs   : the logins /user/orgs returns                                *)
(*   repos  : org login -> the full names /orgs/<org>/repos returns        *)
(*   faults : the endpoints that answer with an error status, a set of     *)
(*            [class, target, status]                                      *)
(* merged_at is an instant in ms, or NullDate for an unmerged PR.          *)

DayMs    == 24 * HourMs
NullDate == 0 - 1

AnyTarget == <<"*">>

\* HTTP status the remote keeps answering with for an endpoint (200 unless
\* faulty).  request() returns on 200 and ends in a thrown GitHubClientError
\* carrying the status otherwise (for 429 once the retries are used up).
StatusOf(rm, class, target) ==
    IF \E f \in rm.faults : f.class = class /\ f.target \in {target, AnyTarget}
    THEN (CHOOSE f \in rm.faults : f.class = class /\ f.target \in {target, AnyTarget}).status
    ELSE 200

\* Errors the orchestrator reports as an invalid token or a rate limit
IsFatal(status) == status \in {401, 429}
FatalOf(status) == IF IsFatal(status) THEN {status} ELSE {}

\* new Date(s) for a date-only string: midnight UTC of that day.  Date
\* strings are the two digits of the day of a fixed month.
ParseDate(s) == (10 * (IndexIn(s[1], Digits) - 1) + (IndexIn(s[2], Digits) - 1)) * DayMs

\* untilDate.setHours(23, 59, 59, 999): the last millisecond of the local
\* calendar day that contains t, for a zone tzo ms east of UTC
SetHoursEndOfDay(t, tzo) == ((t + tzo) \div DayMs) * DayMs + (DayMs - 1) - tzo

isDateInRange(date, since, until, tzo) ==
    LET sinceDate == ParseDate(since)
        untilDate == SetHoursEndOfDay(ParseDate(until), tzo)
    IN  date >= sinceDate /\ date <= untilDate

BrMain    == <<"m","a","i","n">>
BrMaster  == <<"m","a","s","t","e","r">>
RelPrefix == <<"r","e","l","e","a","s","e","/">>

\* Variant: only the branch named exactly "release/" passes as a release branch
isAllowedBaseBranch_Exact(branch) ==
    branch = BrMain \/ branch = BrMaster \/ branch = RelPrefix

isAllowedBaseBranch(branch) ==
    IF branch = BrMain \/ branch = BrMaster THEN TRUE
    ELSE IF StartsWith(branch, RelPrefix) THEN TRUE
    ELSE FALSE

\* The PullRequest built from a GitHubPullRequest (title, body, url,
\* createdAt are copied verbatim and left out; commits is always [])
MakePR(repoFullName, pr) ==
    [number |-> pr.number,
     repoName |-> IF SlashPositions(repoFullName) = {} THEN repoFullName
                  ELSE SplitSecond(repoFullName),
     repoFullName |-> repoFullName,
     baseBranch |-> pr.base,
     mergedAt |-> pr.merged_at]

\* Results of the client's methods: ok is FALSE when the method throws err;
\* swallowed collects the fatal statuses caught and discarded on the way;
\* reqs lists the requests issued, in order
Ret(prs, sw, reqs) ==
    [ok |-> TRUE, prs |-> prs, err |-> 200, swallowed |-> sw, reqs |-> reqs]
Thrown(err, sw, reqs) ==
    [ok |-> FALSE, prs |-> <<>>, err |-> err, swallowed |-> sw, reqs |-> reqs]

Req(class, target) == [class |-> class, target |-> target]

isOrgRepo(repoFullName, username) ==
    ToLowerCase(SplitFirst(repoFullName)) # ToLowerCase(username)

Includes(seq, x) == \E i \in 1..Len(seq) : seq[i] = x

\* Variant: the exclude-list is not consulted
shouldIncludeRepo_NoExclude(opts, repoFullName, username) ==
    IF opts.scope = "personal" /\ isOrgRepo(repoFullName, username) THEN FALSE
    ELSE IF opts.scope = "orgs" /\ ~isOrgRepo(repoFullName, username) THEN FALSE
    ELSE IF Len(opts.repos) > 0 THEN Includes(opts.repos, repoFullName)
    ELSE IF Len(opts.orgs) > 0
         THEN SplitFirst(repoFullName) # <<>> /\ Includes(opts.orgs, SplitFirst(repoFullName))
    ELSE TRUE

shouldIncludeRepo(opts, repoFullName, username) ==
    IF Includes(opts.excludeRepos, repoFullName) THEN FALSE
    ELSE IF opts.scope = "personal" /\ isOrgRepo(repoFullName, username) THEN FALSE
    ELSE IF opts.scope = "orgs" /\ ~isOrgRepo(repoFullName, username) THEN FALSE
    ELSE IF Len(opts.repos) > 0 THEN Includes(opts.repos, repoFullName)
    ELSE IF Len(opts.orgs) > 0
         THEN SplitFirst(repoFullName) # <<>> /\ Includes(opts.orgs, SplitFirst(repoFullName))
    ELSE TRUE

\* Variant: the scan never stops early
MergedBefore_Never(date, since) == FALSE

\* new Date(pr.merged_at) < new Date(since)
MergedBefore(date, since) == date < ParseDate(since)

\* Variant: the PRs that pass the filters, the last of the listing first
ScanListing_Reversed(listing, i, acc, username, repoFullName, since, until, tzo) ==
    LET kept == SelectSeq(listing, LAMBDA pr :
                    /\ pr.merged_at # NullDate
                    /\ ToLowerCase(pr.login) = ToLowerCase(username)
                    /\ isDateInRange(pr.merged_at, since, until, tzo)
                    /\ isAllowedBaseBranch(pr.base))
    IN  [k \in 1..Len(kept) |-> MakePR(repoFullName, kept[Len(kept) + 1 - k])]

\* for (const pr of allPRs) { ... } of listMergedPRs, from position i on
RECURSIVE ScanListing(_, _, _, _, _, _, _, _)
ScanListing(listing, i, acc, username, repoFullName, since, until, tzo) ==
    IF i > Len(listing) THEN acc
    ELSE LET pr == listing[i]
             next(a) == ScanListing(listing, i + 1, a, username, repoFullName, since, until, tzo)
         IN  IF pr.merged_at = NullDate THEN next(acc)
             ELSE IF ToLowerCase(pr.login) # ToLowerCase(username) THEN next(acc)
             ELSE IF ~isDateInRange(pr.merged_at, since, until, tzo)
                  THEN IF MergedBefore(pr.merged_at, since) THEN acc   \* break
                       ELSE next(acc)
             ELSE IF ~isAllowedBaseBranch(pr.base) THEN next(acc)
             ELSE next(Append(acc, MakePR(repoFullName, pr)))

\* The closed-PR listing of a repository and the record of one PR
ListingOf(rm, repoFullName) ==
    IF repoFullName \in DOMAIN rm.prs THEN rm.prs[repoFullName] ELSE <<>>
HasPR(rm, repoFullName, n) ==
    \E i \in 1..Len(ListingOf(rm, repoFullName)) : ListingOf(rm, repoFullName)[i].number = n
DetailOf(rm, repoFullName, n) ==
    LET l == ListingOf(rm, repoFullName)
    IN  l[Min({i \in 1..Len(l) : l[i].number = n})]
\* status of GET /repos/<repo>/pulls/<n>
DetailStatus(rm, repoFullName, n) ==
    IF StatusOf(rm, "detail", repoFullName) # 200 THEN StatusOf(rm, "detail", repoFullName)
    ELSE IF HasPR(rm, repoFullName, n) THEN 200 ELSE 404
\* status of GET /repos/<repo>/pulls?state=closed...
ListingStatus(rm, repoFullName) ==
    IF StatusOf(rm, "listing", repoFullName) # 200 THEN StatusOf(rm, "listing", repoFullName)
    ELSE IF repoFullName \in DOMAIN rm.prs THEN 200 ELSE 404

\* for (const item of allItems) { try { ... } catch { } } of
\* listMergedPRsViaSearch, from position i on
RECURSIVE FetchItems(_, _, _, _, _)
FetchItems(rm, repoFullName, items, i, r) ==
    IF i > Len(items) THEN r
    ELSE LET n  == items[i].number
             st == DetailStatus(rm, repoFullName, n)
             rq == Append(r.reqs, Req("detail", repoFullName))
             pr == DetailOf(rm, repoFullName, n)
         IN  IF st # 200
             THEN FetchItems(rm, repoFullName, items, i + 1,
                             Ret(r.prs, r.swallowed \cup FatalOf(st), rq))
             ELSE IF pr.merged_at = NullDate \/ ~isAllowedBaseBranch(pr.base)
             THEN FetchItems(rm, repoFullName, items, i + 1, Ret(r.prs, r.swallowed, rq))
             ELSE FetchItems(rm, repoFullName, items, i + 1,
                             Ret(Append(r.prs, MakePR(repoFullName, pr)), r.swallowed, rq))

\* The items the search endpoint returns for the query restricted to a repo
RepoHits(rm, username, repoFullName) ==
    SelectSeq(rm.hits[username], LAMBDA h : h.repo = repoFullName)

listMergedPRsViaSearch(rm, username, repoFullName, since, until, r0) ==
    LET st == StatusOf(rm, "repoSearch", repoFullName)
        rq == Append(r0.reqs, Req("repoSearch", repoFullName))
    IN  IF st # 200 THEN Thrown(st, r0.swallowed, rq)
        ELSE FetchItems(rm, repoFullName, RepoHits(rm, username, repoFullName), 1,
                        Ret(<<>>, r0.swallowed, rq))

\* Variant: a failed listing is thrown, the search-based scan is not tried
listMergedPRs_NoFallback(rm, username, repoFullName, since, until, tzo) ==
    LET st == ListingStatus(rm, repoFullName)
        rq == <<Req("listing", repoFullName)>>
    IN  IF st = 200
        THEN Ret(ScanListing(ListingOf(rm, repoFullName), 1, <<>>,
                             username, repoFullName, since, until, tzo), {}, rq)
        ELSE Thrown(st, {}, rq)

listMergedPRs(rm, username, repoFullName, since, until, tzo) ==
    LET st == ListingStatus(rm, repoFullName)
        rq == <<Req("listing", repoFullName)>>
    IN  IF st = 200
        THEN Ret(ScanListing(ListingOf(rm, repoFullName), 1, <<>>,
                             username, repoFullName, since, until, tzo), {}, rq)
        ELSE listMergedPRsViaSearch(rm, username, repoFullName, since, until,
                                    Ret(<<>>, FatalOf(st), rq))

\* for (const repo of repos) { try { listMergedPRs } catch { } }: the loop
\* shared by fetchPRsFromSpecificRepos and fetchPRsFromOrgRepos
RECURSIVE ScanRepos(_, _, _, _, _, _, _, _)
ScanRepos(rm, repoList, i, r, username, since, until, tzo) ==
    IF i > Len(repoList) THEN r
    ELSE LET one == listMergedPRs(rm, username, repoList[i], since, until, tzo)
             sw  == r.swallowed \cup one.swallowed \cup
                    (IF one.ok THEN {} ELSE FatalOf(one.err))
         IN  ScanRepos(rm, repoList, i + 1,
                       Ret(r.prs \o one.prs, sw, r.reqs \o one.reqs),
                       username, since, until, tzo)

\* Variant: the exclude-list is not consulted before a listed repo is scanned
fetchPRsFromSpecificRepos_ScanExcluded(rm, opts, username, since, until, tzo) ==
    ScanRepos(rm, opts.repos, 1, Ret(<<>>, {}, <<>>), username, since, until, tzo)

fetchPRsFromSpecificRepos(rm, opts, username, since, until, tzo) ==
    LET todo == SelectSeq(opts.repos, LAMBDA x : ~Includes(opts.excludeRepos, x))
    IN  ScanRepos(rm, todo, 1, Ret(<<>>, {}, <<>>), username, since, until, tzo)

KUsername == <<"u","s","e","r","n","a","m","e">>
KSince    == <<"s","i","n","c","e">>
KUntil    == <<"u","n","t","i","l">>
KType     == <<"t","y","p","e">>
PrsPrefix == <<"p","r","s">>
SearchType == <<"s","e","a","r","c","h">>

\* const cacheKey = { username, since, until, type: 'search' }
SearchCacheKey(username, since, until) ==
    [k \in {KUsername, KSince, KUntil, KType} |->
        IF k = KUsername THEN username
        ELSE IF k = KSince THEN since
        ELSE IF k = KUntil THEN until
        ELSE SearchType]

\* String(n) for a PR number below 10, and the key `${repoFullName}#${number}`
NumStr(n) == <<Digits[n + 1]>>
PRKey(repoFullName, n) == repoFullName \o <<"#">> \o NumStr(n)

\* for (let i = 0; i < allItems.length; i++) { ... } of
\* fetchPRsViaGlobalSearch, from position i on; seen is seenPRs
RECURSIVE FetchGlobalItems(_, _, _, _, _)
FetchGlobalItems(rm, items, i, seen, r) ==
    IF i > Len(items) THEN r
    ELSE LET repoFullName == items[i].repo
             n     == items[i].number
             prKey == PRKey(repoFullName, n)
             st    == DetailStatus(rm, repoFullName, n)
             rq    == Append(r.reqs, Req("detail", repoFullName))
             pr    == DetailOf(rm, repoFullName, n)
             seen2 == seen \cup {prKey}
         IN  IF prKey \in seen THEN FetchGlobalItems(rm, items, i + 1, seen, r)
             ELSE IF st # 200
             THEN FetchGlobalItems(rm, items, i + 1, seen2,
                                   Ret(r.prs, r.swallowed \cup FatalOf(st), rq))
             ELSE IF pr.merged_at = NullDate \/ ~isAllowedBaseBranch(pr.base)
             THEN FetchGlobalItems(rm, items, i + 1, seen2, Ret(r.prs, r.swallowed, rq))
             ELSE FetchGlobalItems(rm, items, i + 1, seen2,
                                   Ret(Append(r.prs, MakePR(repoFullName, pr)), r.swallowed, rq))

FilterIncluded(prs, opts, username) ==
    SelectSeq(prs, LAMBDA pr : shouldIncludeRepo(opts, pr.repoFullName, username))

\* Variant: the list is filtered by the run's options before it is cached
CachedList_Filtered(pullRequests, opts, username) ==
    FilterIncluded(pullRequests, opts, username)

\* What fetchPRsViaGlobalSearch stores in the cache, given the
\* PullRequests it collected
CachedList(pullRequests, opts, username) == pullRequests

\* Variant: the search is sent before the cache is consulted
fetchPRsViaGlobalSearch_SearchFirst(rm, opts, username, since, until, isEnabled, store, t, writeOk) ==
    LET cacheKey == SearchCacheKey(username, since, until)
        cached   == CacheGet(isEnabled, store, t, PrsPrefix, cacheKey)
        st       == StatusOf(rm, "search", AnyTarget)
        rq       == <<Req("search", AnyTarget), Req("cacheGet", AnyTarget)>>
        got      == FetchGlobalItems(rm, rm.hits[username], 1, {}, Ret(<<>>, {}, rq))
    IN  IF st # 200
        THEN [res |-> Thrown(st, {}, <<Req("search", AnyTarget)>>), store |-> store,
              hit |-> FALSE]
        ELSE IF cached.hit
        THEN [res |-> Ret(FilterIncluded(cached.data, opts, username), {}, rq),
              store |-> store, hit |-> TRUE]
        ELSE [res |-> Ret(FilterIncluded(got.prs, opts, username), got.swallowed,
                          Append(got.reqs, Req("cacheSet", AnyTarget))),
              store |-> CacheSet(isEnabled, store, t, PrsPrefix, cacheKey,
                                 CachedList(got.prs, opts, username), writeOk),
              hit |-> FALSE]

\* fetchPRsViaGlobalSearch; store is the cache directory before the call,
\* the result carries the directory after it and whether the cache was hit.
\* The trace of the result holds the calls of cache.get and cache.set too.
fetchPRsViaGlobalSearch(rm, opts, username, since, until, isEnabled, store, t, writeOk) ==
    LET cacheKey == SearchCacheKey(username, since, until)
        cached   == CacheGet(isEnabled, store, t, PrsPrefix, cacheKey)
        st       == StatusOf(rm, "search", AnyTarget)
        get      == <<Req("cacheGet", AnyTarget)>>
        rq       == Append(get, Req("search", AnyTarget))
        got      == FetchGlobalItems(rm, rm.hits[username], 1, {}, Ret(<<>>, {}, rq))
    IN  IF cached.hit
        THEN [res |-> Ret(FilterIncluded(cached.data, opts, username), {}, get),
              store |-> store, hit |-> TRUE]
        ELSE IF st # 200
        THEN [res |-> Thrown(st, {}, rq), store |-> store, hit |-> FALSE]
        ELSE [res |-> Ret(FilterIncluded(got.prs, opts, username), got.swallowed,
                          Append(got.reqs, Req("cacheSet", AnyTarget))),
              store |-> CacheSet(isEnabled, store, t, PrsPrefix, cacheKey,
                                 CachedList(got.prs, opts, username), writeOk),
              hit |-> FALSE]

\* listUserOrganizations / listOrgRepositories: a failure yields no items
RECURSIVE SweepOrgs(_, _, _, _, _, _, _, _, _, _)
SweepOrgs(rm, opts, orgList, i, r, excludeSet, username, since, until, tzo) ==
    IF i > Len(orgList) THEN r
    ELSE LET org == orgList[i]
             st  == IF StatusOf(rm, "orgRepos", org) # 200 THEN StatusOf(rm, "orgRepos", org)
                    ELSE IF org \in DOMAIN rm.repos THEN 200 ELSE 404
             orgRepos == IF st = 200 THEN rm.repos[org] ELSE <<>>
             unchecked == SelectSeq(orgRepos, LAMBDA x :
                              x \notin excludeSet /\ shouldIncludeRepo(opts, x, username))
             r1 == Ret(r.prs, r.swallowed \cup FatalOf(st),
                       Append(r.reqs, Req("orgRepos", org)))
         IN  SweepOrgs(rm, opts, orgList, i + 1,
                       ScanRepos(rm, unchecked, 1, r1, username, since, until, tzo),
                       excludeSet, username, since, until, tzo)

\* Variant: a failure of GET /user/orgs is thrown to the caller
listUserOrganizations_Throws(rm) ==
    LET st == StatusOf(rm, "userOrgs", AnyTarget)
    IN  [ok |-> st = 200, err |-> st, orgs |-> IF st = 200 THEN rm.orgs ELSE <<>>,
         swallowed |-> {}]

\* try { return await this.fetchAllPages('/user/orgs...') } catch { return [] }
listUserOrganizations(rm) ==
    LET st == StatusOf(rm, "userOrgs", AnyTarget)
    IN  [ok |-> TRUE, err |-> 200, orgs |-> IF st = 200 THEN rm.orgs ELSE <<>>,
         swallowed |-> FatalOf(st)]

fetchPRsFromOrgRepos(rm, opts, username, since, until, excludeSet, tzo) ==
    LET listed == Len(opts.orgs) = 0
        lo == listUserOrganizations(rm)
        orgsToCheck == IF ~listed THEN opts.orgs ELSE lo.orgs
        r0 == IF listed THEN Ret(<<>>, lo.swallowed, <<Req("userOrgs", AnyTarget)>>)
              ELSE Ret(<<>>, {}, <<>>)
    IN  IF opts.scope = "personal" THEN Ret(<<>>, {}, <<>>)
        ELSE IF Len(opts.repos) > 0 THEN Ret(<<>>, {}, <<>>)
        ELSE IF listed /\ ~lo.ok THEN Thrown(lo.err, {}, r0.reqs)
        ELSE SweepOrgs(rm, opts, orgsToCheck, 1, r0, excludeSet, username, since, until, tzo)

\* Variant: every PullRequest is kept
Dedup_KeepAll(prs, i, acc) == prs

\* uniquePRs: the first PullRequest of every key, in order of first occurrence
RECURSIVE Dedup(_, _, _)
Dedup(prs, i, acc) ==
    IF i > Len(prs) THEN acc
    ELSE IF \E j \in 1..Len(acc) :
                PRKey(acc[j].repoFullName, acc[j].number) = PRKey(prs[i].repoFullName, prs[i].number)
         THEN Dedup(prs, i + 1, acc)
         ELSE Dedup(prs, i + 1, Append(acc, prs[i]))

\* result.sort((a, b) => time(a.mergedAt) - time(b.mergedAt)), a stable sort
RECURSIVE InsertSorted(_, _)
InsertSorted(sorted, pr) ==
    IF sorted = <<>> THEN <<pr>>
    ELSE IF sorted[Len(sorted)].mergedAt - pr.mergedAt <= 0 THEN Append(sorted, pr)
    ELSE Append(InsertSorted(SubSeq(sorted, 1, Len(sorted) - 1), pr), sorted[Len(sorted)])
\* Variant: the list is returned in the order of its keys' first occurrence
SortByMergedAt_Unsorted(prs, i, acc) == prs

RECURSIVE SortByMergedAt(_, _, _)
SortByMergedAt(prs, i, acc) ==
    IF i > Len(prs) THEN acc ELSE SortByMergedAt(prs, i + 1, InsertSorted(acc, prs[i]))

UniqueSorted(all) == SortByMergedAt(Dedup(all, 1, <<>>), 1, <<>>)

\* Variant: the organization sweep runs in --fast mode too
SweepRuns_Always(opts) == TRUE

\* if (!this.options.skipOrgScan): whether fetchAllMergedPRs calls
\* fetchPRsFromOrgRepos after the global search
SweepRuns(opts) == ~opts.skipOrgScan

\* fetchAllMergedPRs as one function of the remote, the options and the cache
fetchAllMergedPRs(rm, opts, isEnabled, store, t, writeOk, tzo) ==
    LET u == opts.username
        specific == fetchPRsFromSpecificRepos(rm, opts, u, opts.since, opts.until, tzo)
        g == fetchPRsViaGlobalSearch(rm, opts, u, opts.since, opts.until,
                                     isEnabled, store, t, writeOk)
        foundRepos == {g.res.prs[i].repoFullName : i \in 1..Len(g.res.prs)}
        orgPRs == fetchPRsFromOrgRepos(rm, opts, u, opts.since, opts.until, foundRepos, tzo)
    IN  IF Len(opts.repos) > 0
        THEN IF ~specific.ok THEN [ok |-> FALSE, prs |-> <<>>, reqs |-> specific.reqs]
             ELSE [ok |-> TRUE, prs |-> UniqueSorted(specific.prs), reqs |-> specific.reqs]
        ELSE IF ~g.res.ok THEN [ok |-> FALSE, prs |-> <<>>, reqs |-> g.res.reqs]
        ELSE IF SweepRuns(opts)
        THEN IF ~orgPRs.ok
             THEN [ok |-> FALSE, prs |-> <<>>, reqs |-> g.res.reqs \o orgPRs.reqs]
             ELSE [ok |-> TRUE, prs |-> UniqueSorted(g.res.prs \o orgPRs.prs),
                   reqs |-> g.res.reqs \o orgPRs.reqs]
        ELSE [ok |-> TRUE, prs |-> UniqueSorted(g.res.prs), reqs |-> g.res.reqs]

-----------------------------------------------------------------------------
(* The inputs of the model                                                 *)

Username == <<"A","a">>
\* another user, whose search cache key is the one of Username
OtherUser == <<"B","B">>
Since    == <<"0","2">>
Until    == <<"0","3">>

R1  == <<"a","a","/","p">>      \* a repository of the user
R2  == <<"o","o","/","r">>      \* a repository of an organization
Org == <<"o","o">>

BrRelease == <<"r","e","l","e","a","s","e","/","9",".","2">>
BrFeature == <<"f","e","a","t","u","r","e","/","x">>
BrReleaseNoSlash == <<"r","e","l","e","a","s","e">>

TBefore == DayMs + 12 * HourMs          \* the day before since
TIn1    == 2 * DayMs + HourMs           \* on the since day
TIn2    == 3 * DayMs + HourMs           \* on the until day
TAfter  == 5 * DayMs                    \* after the until day
TLastSecond == 4 * DayMs - 1000         \* 23:59:59 on the until day
TNextDay    == 4 * DayMs                \* 00:00:00 on the day after until

GhPR(n, login, merged, base) ==
    [number |-> n, login |-> login, merged_at |-> merged, base |-> base]

\* The repositories' closed-PR listings in the runs of fetchAllMergedPRs
Database ==
    (R1 :> <<GhPR(1, <<"A","A">>, TIn2, BrMain),
             GhPR(2, <<"B","B">>, TIn1, BrMain)>>) @@
    (R2 :> <<GhPR(3, <<"a","a">>, TAfter, BrMaster),
             GhPR(1, <<"a","a">>, TIn1, BrRelease),
             GhPR(4, <<"a","a">>, NullDate, BrMain),
             GhPR(2, <<"A","a">>, TIn1, BrFeature)>>)

PRRefs ==
    UNION {{[repo |-> r, number |-> Database[r][i].number] : i \in 1..Len(Database[r])} :
              r \in DOMAIN Database}

MaxHits == 1        \* every sequence of at most this many items is a search answer
\* longer search answers: the same item twice, two repositories
LongHits ==
    {<<[repo |-> R1, number |-> 1], [repo |-> R1, number |-> 1]>>,
     <<[repo |-> R1, number |-> 1]>>,
     <<[repo |-> R1, number |-> 1], [repo |-> R2, number |-> 1]>>,
     <<[repo |-> R2, number |-> 3], [repo |-> R1, number |-> 2], [repo |-> R2, number |-> 1]>>}
HitSeqs == UNION {[1..n -> PRRefs] : n \in 0..MaxHits} \cup LongHits

Fault(class, target, status) == [class |-> class, target |-> target, status |-> status]
ErrorStatuses == {401, 404, 429}
\* no fault; one faulty endpoint class; the listing of the organization's
\* repository alone; its listing and its per-repo search; the listing and
\* the per-repo search of every repository
FaultSets ==
    {{}} \cup
    {{Fault(c, AnyTarget, st)} :
        c \in {"search", "detail", "listing", "repoSearch", "userOrgs", "orgRepos"},
        st \in ErrorStatuses} \cup
    {{Fault("listing", R2, st)} : st \in ErrorStatuses} \cup
    {{Fault("listing", R2, st), Fault("repoSearch", R2, st)} : st \in ErrorStatuses} \cup
    {{Fault("listing", AnyTarget, st), Fault("repoSearch", AnyTarget, st)} :
        st \in ErrorStatuses}
FaultHits ==
    {<<[repo |-> R1, number |-> 1]>>,
     <<[repo |-> R1, number |-> 1], [repo |-> R2, number |-> 1]>>}

\* what the search answers to a query for the other user
OtherHits == <<[repo |-> R1, number |-> 2]>>
MakeRemote(hits, faults) ==
    [prs |-> Database, hits |-> (Username :> hits) @@ (OtherUser :> OtherHits), orgs |-> <<Org>>, repos |-> (Org :> <<R2>>),
     faults |-> faults]
Remotes ==
    {MakeRemote(h, {}) : h \in HitSeqs} \cup
    {MakeRemote(h, f) : h \in FaultHits, f \in FaultSets}

OptionSets ==
    [cache : BOOLEAN, scope : {"all", "personal", "orgs"},
     repos : {<<>>, <<R2, R1, R2>>}, orgs : {<<>>, <<Org>>},
     excludeRepos : {<<>>, <<R2>>}, skipOrgScan : BOOLEAN,
     username : {Username}, since : {Since}, until : {Until}] \cup
    [cache : {TRUE}, scope : {"all"}, repos : {<<>>}, orgs : {<<>>},
     excludeRepos : {<<>>}, skipOrgScan : BOOLEAN,
     username : {OtherUser}, since : {Since}, until : {Until}]
DefaultOptions ==
    [cache |-> TRUE, scope |-> "all", repos |-> <<>>, orgs |-> <<>>,
     excludeRepos |-> <<>>, skipOrgScan |-> FALSE,
     username |-> Username, since |-> Since, until |-> Until]

NoGet == [called |-> FALSE, prefix |-> <<>>, params |-> <<>>, hit |-> FALSE, data |-> <<>>]
NoResult == [kind |-> "none", status |-> 0, rateLimit |-> FALSE]

CacheIdle == lastGet = NoGet
ReqIdle ==
    /\ reqPc = "idle" /\ retryCount = 0 /\ attempts = 0 /\ sleeps = <<>>
    /\ reqResult = NoResult /\ lastRequestTime = 0 /\ requestCount = 0
    /\ inFlight = 0
RunIdle ==
    /\ options = DefaultOptions /\ pc = "idle" /\ searchPRs = <<>> /\ allPRs = <<>>
    /\ result = <<>> /\ error = 200 /\ swallowed = {} /\ cacheHit = FALSE
    /\ requests = <<>>
NoFeature == [project |-> <<>>, title |-> <<>>, description |-> <<>>, type |-> "none",
              prs |-> <<>>, startDate |-> 0, endDate |-> 0, confidence |-> "none"]
NoExit == 0 - 1
GroupIdle ==
    /\ features = <<>> /\ summaries = <<>> /\ mergeOut = NoFeature /\ gpc = "idle"
NoAnswer == [kind |-> "none", items |-> <<>>]
NoCalls == [calls |-> 0, failed |-> 0, last |-> NoAnswer]
FirstBatch == [batch |-> 1, fallback |-> 0]
PlainRun == [dryRun |-> FALSE, fetchFails |-> FALSE, writeFails |-> FALSE]
CliIdle ==
    /\ cliPc = "idle" /\ cliOpts = PlainRun /\ cliPRs = <<>> /\ cliPos = FirstBatch
    /\ llm = NoCalls /\ exitCode = NoExit
Callers == {1, 2}
IdleCaller == [pc |-> "idle", wake |-> 0, calls |-> 0]
RaceIdle == callers = [c \in Callers |-> IdleCaller] /\ sent = <<>>
NoPages ==
    [pc |-> "idle", url |-> <<>>, results |-> <<>>, requested |-> <<>>,
     returned |-> <<"none">>, site |-> [sizes |-> <<0>>, failAt |-> 0, style |-> "github"]]
NoClustering ==
    [pc |-> "idle", input |-> <<>>, remaining |-> <<>>, merged |-> <<>>,
     current |-> NoFeature, i |-> 0, turns |-> 0, before |-> 0]
NoSearchLoop ==
    [pc |-> "idle", loop |-> "none", page |-> 1, items |-> 0, requests |-> 0, size |-> 0,
     total |-> 0, first |-> 0, steady |-> TRUE]
AuxIdle ==
    /\ RaceIdle /\ pages = NoPages /\ clustering = NoClustering /\ searchLoop = NoSearchLoop

-----------------------------------------------------------------------------
(* Runs of fetchAllMergedPRs, one process after another over one cache     *)
(* directory and one remote                                                *)

Init ==
    /\ files = {} /\ dirExists = TRUE /\ now = 0 /\ enabled = TRUE /\ CacheIdle
    /\ ReqIdle
    /\ tz = 0 /\ remote \in Remotes /\ RunIdle
    /\ GroupIdle /\ CliIdle /\ AuxIdle

\* runGenerate: initCache(cache), new GitHubClient(token, options), and the
\* call of fetchAllMergedPRs(user, since, until)
StartRun(o) ==
    /\ pc = "idle"
    /\ options' = o
    /\ enabled' = o.cache
    /\ dirExists' = CacheNew(o.cache, dirExists)
    /\ pc' = "start"
    /\ UNCHANGED <<auxVars, grpVars, cliVars, files, now, lastGet, reqVars, tz, remote, searchPRs, allPRs, result,
                   error, swallowed, cacheHit, requests>>

\* if (this.options.repos && this.options.repos.length > 0)
RunSpecificRepos ==
    /\ pc = "start" /\ Len(options.repos) > 0
    /\ \E r \in {fetchPRsFromSpecificRepos(remote, options, options.username,
                                            options.since, options.until, tz)} :
           /\ swallowed' = swallowed \cup r.swallowed
           /\ requests' = requests \o r.reqs
           /\ IF r.ok THEN pc' = "dedup" /\ allPRs' = r.prs /\ error' = error
              ELSE pc' = "failed" /\ allPRs' = allPRs /\ error' = r.err
    /\ UNCHANGED <<auxVars, grpVars, cliVars, cacheVars, reqVars, tz, remote, options, searchPRs, result, cacheHit>>

\* else: const searchPRs = await this.fetchPRsViaGlobalSearch(...)
RunGlobalSearch(writeOk) ==
    /\ pc = "start" /\ Len(options.repos) = 0
    /\ \E g \in {fetchPRsViaGlobalSearch(remote, options, options.username, options.since,
                                          options.until, enabled, files, now, writeOk)} :
           /\ files' = g.store
           /\ cacheHit' = g.hit
           /\ swallowed' = swallowed \cup g.res.swallowed
           /\ requests' = requests \o g.res.reqs
           /\ IF ~g.res.ok
              THEN /\ pc' = "failed" /\ error' = g.res.err
                   /\ UNCHANGED <<auxVars, grpVars, cliVars, searchPRs, allPRs>>
              ELSE /\ searchPRs' = g.res.prs
                   /\ error' = error
                   /\ IF SweepRuns(options)
                      THEN pc' = "orgs" /\ allPRs' = allPRs
                      ELSE pc' = "dedup" /\ allPRs' = g.res.prs
    /\ UNCHANGED <<auxVars, grpVars, cliVars, dirExists, now, enabled, lastGet, reqVars, tz, remote, options, result>>

\* const orgPRs = await this.fetchPRsFromOrgRepos(..., foundRepos)
RunOrgSweep ==
    /\ pc = "orgs"
    /\ \E r \in {fetchPRsFromOrgRepos(remote, options, options.username, options.since,
                        options.until,
                        {searchPRs[i].repoFullName : i \in 1..Len(searchPRs)}, tz)} :
           /\ swallowed' = swallowed \cup r.swallowed
           /\ requests' = requests \o r.reqs
           /\ IF r.ok THEN pc' = "dedup" /\ allPRs' = searchPRs \o r.prs /\ error' = error
              ELSE pc' = "failed" /\ allPRs' = allPRs /\ error' = r.err
    /\ UNCHANGED <<auxVars, grpVars, cliVars, cacheVars, reqVars, tz, remote, options, searchPRs, result, cacheHit>>

\* uniquePRs, result.sort(...), return result
RunFinish ==
    /\ pc = "dedup"
    /\ result' = UniqueSorted(allPRs)
    /\ pc' = "done"
    /\ UNCHANGED <<auxVars, grpVars, cliVars, cacheVars, reqVars, tz, remote, options, searchPRs, allPRs, error,
                   swallowed, cacheHit, requests>>

\* The process ends; the cache directory stays
EndRun ==
    /\ pc \in {"done", "failed"}
    /\ options' = DefaultOptions /\ pc' = "idle" /\ searchPRs' = <<>> /\ allPRs' = <<>>
    /\ result' = <<>> /\ error' = 200 /\ swallowed' = {} /\ cacheHit' = FALSE
    /\ requests' = <<>>
    /\ UNCHANGED <<auxVars, grpVars, cliVars, cacheVars, reqVars, tz, remote>>

\* Time passes between two processes
Tick(h) ==
    /\ pc = "idle" /\ reqPc = "idle"
    /\ now + h * HourMs <= MaxClock * HourMs
    /\ now' = now + h * HourMs
    /\ lastGet' = NoGet
    /\ UNCHANGED <<auxVars, grpVars, cliVars, files, dirExists, enabled, reqVars, discVars>>

\* The clear-cache command: initCache(true) and Cache.clear()
ClearCache ==
    /\ pc = "idle" /\ reqPc = "idle"
    /\ files # {}
    /\ files' = CacheClear(files)
    /\ enabled' = TRUE
    /\ dirExists' = CacheNew(TRUE, dirExists)
    /\ lastGet' = NoGet
    /\ UNCHANGED <<auxVars, grpVars, cliVars, now, reqVars, discVars>>

Next ==
    \/ \E o \in OptionSets : StartRun(o)
    \/ RunSpecificRepos
    \/ \E writeOk \in BOOLEAN : RunGlobalSearch(writeOk)
    \/ RunOrgSweep
    \/ RunFinish
    \/ EndRun
    \/ \E h \in RunTickHours : Tick(h)
    \/ ClearCache

Spec == Init /\ [][Next]_vars

-----------------------------------------------------------------------------
(* The cache on its own: get, set and clear with any parameters            *)

CacheUsers  == {<<"A","a">>, <<"B","B">>, <<"a","a">>}
CacheParams == {SearchCacheKey(u, Since, Until) : u \in CacheUsers}
CacheData   == {<<1>>, <<2>>}

\* A file written under another schema version
LegacyFile ==
    [path |-> getCachePath(generateKey(PrsPrefix, SearchCacheKey(Username, Since, Until))),
     data |-> <<1>>, timestamp |-> 0, version |-> LegacyVersion,
     by |-> [prefix |-> PrsPrefix, params |-> SearchCacheKey(Username, Since, Until)]]

CacheInit ==
    /\ files \in {{}, {LegacyFile}} /\ now = 0 /\ enabled \in BOOLEAN /\ CacheIdle
    /\ dirExists \in BOOLEAN /\ ((enabled \/ files # {}) => dirExists)
    /\ ReqIdle
    /\ tz = 0 /\ remote = MakeRemote(<<>>, {}) /\ RunIdle
    /\ GroupIdle /\ CliIdle /\ AuxIdle

CacheSetOp(prefix, params, data, writeOk) ==
    /\ files' = CacheSet(enabled, files, now, prefix, params, data, writeOk)
    /\ lastGet' = NoGet
    /\ UNCHANGED <<auxVars, grpVars, cliVars, dirExists, now, enabled, reqVars, discVars>>

CacheGetOp(prefix, params) ==
    /\ LET g == CacheGet(enabled, files, now, prefix, params)
       IN  lastGet' = [called |-> TRUE, prefix |-> prefix, params |-> params,
                       hit |-> g.hit, data |-> g.data]
    /\ UNCHANGED <<auxVars, grpVars, cliVars, files, dirExists, now, enabled, reqVars, discVars>>

\* initCache(enabled): a process replaces the global cache instance
InitCacheOp(e) ==
    /\ enabled' = e
    /\ dirExists' = CacheNew(e, dirExists)
    /\ lastGet' = NoGet
    /\ UNCHANGED <<auxVars, grpVars, cliVars, files, now, reqVars, discVars>>

\* Cache.clear() of the current instance
CacheClearOp ==
    /\ files # {}
    /\ files' = IF dirExists THEN CacheClear(files) ELSE files
    /\ lastGet' = NoGet
    /\ UNCHANGED <<auxVars, grpVars, cliVars, dirExists, now, enabled, reqVars, discVars>>

CacheNext ==
    \/ \E q \in CacheParams, d \in CacheData, w \in BOOLEAN : CacheSetOp(PrsPrefix, q, d, w)
    \/ \E q \in CacheParams : CacheGetOp(PrsPrefix, q)
    \/ \E e \in BOOLEAN : InitCacheOp(e)
    \/ CacheClearOp
    \/ \E h \in TickHours : Tick(h)
    \/ ClearCache

SpecCache == CacheInit /\ [][CacheNext]_vars

-----------------------------------------------------------------------------
(* One client issuing request() calls, one after another                   *)

minRequestInterval == 100
MaxRetries   == 3          \* if (retryCount >= 3) throw
DefaultWait  == 60000      \* let waitTime = 60000
MinWait      == 1000
MaxWait      == 300000
NowBase      == 1000000    \* the clock when the client is constructed
MaxRequests  == 5          \* a call starts only while requestCount + 4 <= MaxRequests

NoReset      == 0 - 1      \* no X-RateLimit-Reset header
ResetOffsets == {NoReset, 0, 30, 400}   \* the header, in seconds after the response
Latencies    == {20, 150}               \* ms between sending a request and its response
Responses ==
    [status : {200, 401, 404}, remaining : {"none"}, reset : {NoReset}] \cup
    [status : {403}, remaining : {"5"}, reset : {NoReset}] \cup
    [status : {403}, remaining : {"0"}, reset : ResetOffsets] \cup
    [status : {429}, remaining : {"none"}, reset : ResetOffsets]

\* Variant: the wait is not raised to one second
WaitTime_NoFloor(reset, t) ==
    IF reset = NoReset THEN DefaultWait
    ELSE LET w == reset * 1000 - t + 1000
         IN  IF w < MaxWait THEN w ELSE MaxWait

\* waitTime of request(): reset is the header value in epoch seconds
WaitTime(reset, t) ==
    IF reset = NoReset THEN DefaultWait
    ELSE LET resetTime == reset * 1000
             w == IF resetTime - t + 1000 > MinWait THEN resetTime - t + 1000 ELSE MinWait
         IN  IF w < MaxWait THEN w ELSE MaxWait

\* The X-RateLimit-Reset header of a response received at t, in epoch seconds
ResetHeader(resp, t) ==
    IF resp.reset = NoReset THEN NoReset ELSE (t \div 1000) + resp.reset

\* The backoff after a throttling response received at t: the sleep and
\* what it was computed from
Backoff(resp, t) ==
    [wait |-> WaitTime(ResetHeader(resp, t), t), reset |-> ResetHeader(resp, t), at |-> t]

\* Variant: every 403 counts as throttling, whatever its headers
Throttled_AnyForbidden(resp) == resp.status \in {403, 429}

\* rateLimitRemaining === '0' || response.status === 429, inside
\* response.status === 403 || response.status === 429
Throttled(resp) ==
    resp.status \in {403, 429} /\ (resp.remaining = "0" \/ resp.status = 429)

\* Variant: rateLimit() returns at once
RateLimitWake_NoSleep(t, last) == t

\* rateLimit(): the instant it returns when called at t, the previous
\* request having started at last
RateLimitWake(t, last) ==
    LET timeSinceLastRequest == t - last
    IN  IF timeSinceLastRequest < minRequestInterval
        THEN t + (minRequestInterval - timeSinceLastRequest)
        ELSE t

\* Variant: one more retry before giving up
RetriesExhausted_OffByOne(rc) == rc > MaxRetries

\* if (retryCount >= 3) throw
RetriesExhausted(rc) == rc >= MaxRetries

ReqInit ==
    /\ files = {} /\ dirExists = TRUE /\ now = NowBase /\ enabled = TRUE /\ CacheIdle
    /\ ReqIdle
    /\ tz = 0 /\ remote = MakeRemote(<<>>, {}) /\ RunIdle
    /\ GroupIdle /\ CliIdle /\ AuxIdle

\* a caller invokes request(endpoint)
ReqCall ==
    /\ reqPc = "idle"
    /\ requestCount + (MaxRetries + 1) <= MaxRequests
    /\ reqPc' = "rateLimit"
    /\ retryCount' = 0 /\ attempts' = 0 /\ sleeps' = <<>> /\ reqResult' = NoResult
    /\ UNCHANGED <<auxVars, grpVars, cliVars, cacheVars, lastRequestTime, requestCount, inFlight, discVars>>

\* await this.rateLimit()
ReqRateLimit ==
    /\ reqPc = "rateLimit"
    /\ now' = RateLimitWake(now, lastRequestTime)
    /\ lastRequestTime' = now'
    /\ requestCount' = requestCount + 1
    /\ inFlight' = inFlight + 1
    /\ reqPc' = "fetch"
    /\ UNCHANGED <<auxVars, grpVars, cliVars, files, dirExists, enabled, lastGet, retryCount, attempts, sleeps, reqResult,
                   discVars>>

\* await fetch(url, ...) and the handling of the response
ReqRespond(resp, latency) ==
    /\ reqPc = "fetch"
    /\ now' = now + latency
    /\ attempts' = attempts + 1
    /\ inFlight' = inFlight - 1
    /\ IF Throttled(resp)
       THEN IF RetriesExhausted(retryCount)
            THEN /\ reqPc' = "thrown"
                 /\ reqResult' = [kind |-> "error", status |-> resp.status, rateLimit |-> TRUE]
                 /\ sleeps' = sleeps
            ELSE /\ reqPc' = "sleep"
                 /\ sleeps' = Append(sleeps, Backoff(resp, now'))
                 /\ reqResult' = reqResult
       ELSE /\ sleeps' = sleeps
            /\ IF resp.status # 200
               THEN /\ reqPc' = "thrown"
                    /\ reqResult' = [kind |-> "error", status |-> resp.status,
                                     rateLimit |-> FALSE]
               ELSE /\ reqPc' = "returned"
                    /\ reqResult' = [kind |-> "ok", status |-> resp.status,
                                     rateLimit |-> FALSE]
    /\ UNCHANGED <<auxVars, grpVars, cliVars, files, dirExists, enabled, lastGet, retryCount, lastRequestTime, requestCount,
                   discVars>>

\* await sleep(waitTime); return this.request(endpoint, options, retryCount + 1)
ReqRetry ==
    /\ reqPc = "sleep"
    /\ now' = now + sleeps[Len(sleeps)].wait
    /\ retryCount' = retryCount + 1
    /\ reqPc' = "rateLimit"
    /\ UNCHANGED <<auxVars, grpVars, cliVars, files, dirExists, enabled, lastGet, attempts, sleeps, reqResult,
                   lastRequestTime, requestCount, inFlight, discVars>>

\* the call has returned or thrown; the caller goes on
ReqEnd ==
    /\ reqPc \in {"returned", "thrown"}
    /\ reqPc' = "idle"
    /\ UNCHANGED <<auxVars, grpVars, cliVars, cacheVars, retryCount, attempts, sleeps, reqResult, lastRequestTime,
                   requestCount, inFlight, discVars>>

ReqNext ==
    \/ ReqCall
    \/ ReqRateLimit
    \/ \E resp \in Responses, l \in Latencies : ReqRespond(resp, l)
    \/ ReqRetry
    \/ ReqEnd

SpecRequest == ReqInit /\ [][ReqNext]_vars

-----------------------------------------------------------------------------
(* The requests of one run of fetchAllMergedPRs, issued one by one through *)
(* request(); requests holds the requests the run has still to issue       *)

FlightLatency == 20     \* ms between sending a request and its response
TransientThrottle == [status |-> 429, remaining |-> "none", reset |-> NoReset]

\* The requests of a trace that go to the network
NetworkTrace(reqs) ==
    SelectSeq(reqs, LAMBDA q : q.class \notin {"cacheGet", "cacheSet"})

FlightOptions ==
    {DefaultOptions,
     [DefaultOptions EXCEPT !.skipOrgScan = TRUE],
     [DefaultOptions EXCEPT !.repos = <<R2, R1, R2>>]}
FlightRemotes ==
    {MakeRemote(h, {}) : h \in LongHits} \cup
    {MakeRemote(h, f) : h \in FaultHits,
                        f \in {{Fault("listing", R2, 429)}, {Fault("detail", AnyTarget, 404)}}}

FlightInit ==
    /\ files = {} /\ dirExists = TRUE /\ now = NowBase /\ enabled = TRUE /\ CacheIdle
    /\ ReqIdle
    /\ tz = 0 /\ remote \in FlightRemotes /\ options \in FlightOptions
    /\ pc = "start" /\ searchPRs = <<>> /\ allPRs = <<>> /\ result = <<>>
    /\ error = 200 /\ swallowed = {} /\ cacheHit = FALSE
    /\ \E s \in {fetchPRsFromSpecificRepos(remote, options, options.username,
                                            options.since, options.until, tz)},
          g \in {fetchPRsViaGlobalSearch(remote, options, options.username, options.since,
                                          options.until, enabled, files, now, TRUE)} :
          \E o \in {fetchPRsFromOrgRepos(remote, options, options.username, options.since,
                        options.until,
                        {g.res.prs[i].repoFullName : i \in 1..Len(g.res.prs)}, tz)} :
              requests = NetworkTrace(IF Len(options.repos) > 0 THEN s.reqs
                                      ELSE IF g.res.ok /\ SweepRuns(options)
                                      THEN g.res.reqs \o o.reqs
                                      ELSE g.res.reqs)
    /\ GroupIdle /\ CliIdle /\ AuxIdle

\* Variant: the next request is started without waiting for the previous one
Awaited_Detached(p) == TRUE

\* await this.request(...): the caller issues its next request only once the
\* previous call of request() has returned or thrown
Awaited(p) == p = "idle"

\* the run calls request() for the next request of its trace
FlightCall ==
    /\ requests # <<>>
    /\ Awaited(reqPc)
    /\ reqPc' = "rateLimit"
    /\ retryCount' = 0 /\ attempts' = 0 /\ sleeps' = <<>> /\ reqResult' = NoResult
    /\ UNCHANGED <<auxVars, grpVars, cliVars, cacheVars, lastRequestTime, requestCount, inFlight, discVars>>

\* the response: a throttle that passes before the retries are used up, or
\* the status the remote gives to the endpoint
FlightRespond(throttle) ==
    LET st == StatusOf(remote, requests[1].class, requests[1].target)
    IN  /\ requests # <<>>
        /\ throttle => ~RetriesExhausted(retryCount)
        /\ ReqRespond(IF throttle \/ st = 429 THEN TransientThrottle
                      ELSE [status |-> st, remaining |-> "none", reset |-> NoReset],
                      FlightLatency)

\* request() has returned or thrown; the run goes on to its next request
FlightReturn ==
    /\ reqPc \in {"returned", "thrown"}
    /\ reqPc' = "idle"
    /\ requests' = Tail(requests)
    /\ UNCHANGED <<auxVars, grpVars, cliVars, cacheVars, retryCount, attempts, sleeps, reqResult, lastRequestTime,
                   requestCount, inFlight, tz, remote, options, pc, searchPRs, allPRs,
                   result, error, swallowed, cacheHit>>

FlightNext ==
    \/ FlightCall
    \/ ReqRateLimit
    \/ \E throttle \in BOOLEAN : FlightRespond(throttle)
    \/ ReqRetry
    \/ FlightReturn

SpecFlight == FlightInit /\ [][FlightNext]_vars

-----------------------------------------------------------------------------
(* The per-repo scan on its own, over any listing                          *)

TzOffsets == {0, 0 - 5 * HourMs, 5 * HourMs + HourMs \div 2}

ScanKinds ==
    {[login |-> <<"A","A">>, merged_at |-> TIn2,     base |-> BrMain],
     [login |-> <<"a","a">>, merged_at |-> TIn1,     base |-> BrRelease],
     [login |-> <<"B","B">>, merged_at |-> TIn1,     base |-> BrMain],
     [login |-> <<"a","a">>, merged_at |-> TBefore,  base |-> BrMaster],
     [login |-> <<"A","a">>, merged_at |-> TIn1,     base |-> BrFeature],
     [login |-> <<"a","a">>, merged_at |-> NullDate, base |-> BrMain],
     [login |-> <<"a","a">>, merged_at |-> TAfter,   base |-> BrMain],
     [login |-> <<"A","a">>, merged_at |-> TLastSecond, base |-> BrMain],
     [login |-> <<"A","a">>, merged_at |-> TNextDay,    base |-> BrMain],
     [login |-> <<"B","B">>, merged_at |-> TBefore,  base |-> BrMain]}
MaxListing == 3     \* most PRs in a closed-PR listing
\* the i-th PR of a listing has number i
ScanListings ==
    UNION {{[i \in 1..n |-> GhPR(i, ks[i].login, ks[i].merged_at, ks[i].base)] :
               ks \in [1..n -> ScanKinds]} : n \in 0..MaxListing}

\* the closed-PR listing answers, or fails with 404 and the per-repo search
\* answers with the PRs of the repository, in another order than the listing
ScanFaultSets == {{}, {Fault("listing", R1, 404)}}
ScanHits(l) == [k \in 1..Len(l) |-> [repo |-> R1, number |-> l[Len(l) + 1 - k].number]]

ScanInit ==
    /\ files = {} /\ dirExists = TRUE /\ now = 0 /\ enabled = TRUE /\ CacheIdle
    /\ ReqIdle
    /\ tz \in TzOffsets
    /\ \E l \in ScanListings, f \in ScanFaultSets :
          remote = [prs |-> (R1 :> l), hits |-> (Username :> ScanHits(l)), orgs |-> <<>>,
                    repos |-> (Org :> <<>>), faults |-> f]
    /\ RunIdle
    /\ GroupIdle /\ CliIdle /\ AuxIdle

\* a caller invokes listMergedPRs(username, repoFullName, since, until), a
\* first time and then once more with the same arguments; allPRs keeps what
\* the call before returned
ScanRepo ==
    /\ pc \in {"idle", "done"}
    /\ \E r \in {listMergedPRs(remote, options.username, R1, options.since,
                                options.until, tz)} :
           /\ result' = r.prs
           /\ allPRs' = result
           /\ swallowed' = r.swallowed
           /\ requests' = r.reqs
           /\ pc' = IF ~r.ok THEN "failed" ELSE IF pc = "idle" THEN "done" ELSE "again"
           /\ error' = r.err
    /\ UNCHANGED <<auxVars, grpVars, cliVars, cacheVars, reqVars, tz, remote, options, searchPRs, cacheHit>>

ScanNext == ScanRepo

SpecScan == ScanInit /\ [][ScanNext]_vars

-----------------------------------------------------------------------------
(* Feature grouping: src/src/domain/grouping.ts.  A Feature is a record     *)
(* [project, title, description, type, prs, startDate, endDate,            *)
(* confidence]; titles are sequences of characters, dates are instants.    *)
(* Similarities are fractions [num, den], so that the comparison with the  *)
(* threshold is exact.                                                     *)

Blank == " "
WordChars == Range(LowerLetters) \cup Range(UpperLetters) \cup Range(Digits) \cup {"_"}

\* s.replace(/[^\w\s]/g, ' ')
StripPunctuation(s) ==
    [i \in 1..Len(s) |-> IF s[i] \in WordChars \cup {Blank} THEN s[i] ELSE Blank]

\* s.split(/\s+/), without the empty strings: the maximal runs of
\* non-blank characters
SplitWords(s) ==
    {SubSeq(s, p[1], p[2]) :
        p \in {r \in (1..Len(s)) \X (1..Len(s)) :
                  /\ r[1] <= r[2]
                  /\ \A k \in r[1]..r[2] : s[k] # Blank
                  /\ (r[1] = 1 \/ s[r[1] - 1] = Blank)
                  /\ (r[2] = Len(s) \/ s[r[2] + 1] = Blank)}}

\* new Set(normalize(str)): the words of more than two characters
\* (\o <<>> keeps the converted string as a plain sequence of characters)
normalize(s) == {w \in SplitWords(StripPunctuation(ToLowerCase(s)) \o <<>>) : Len(w) > 2}

Frac(n, d) == [num |-> n, den |-> d]

\* Jaccard similarity of the two token sets, 0 when either is empty
Jaccard(tokens1, tokens2) ==
    IF tokens1 = {} \/ tokens2 = {} THEN Frac(0, 1)
    ELSE Frac(Cardinality(tokens1 \cap tokens2), Cardinality(tokens1 \cup tokens2))
calculateSimilarity(str1, str2) == Jaccard(normalize(str1), normalize(str2))

\* one row of the matrix dp: prev is dp[i-1], cur is dp[i][0..j-1] with
\* j = cur.length, c is str1[i-1]
RECURSIVE LevRow(_, _, _, _)
LevRow(prev, cur, c, str2) ==
    IF Len(cur) > Len(str2) THEN cur
    ELSE LevRow(prev,
                Append(cur, Min({prev[Len(cur) + 1] + 1, cur[Len(cur)] + 1,
                                 prev[Len(cur)] + (IF c = str2[Len(cur)] THEN 0 ELSE 1)})),
                c, str2)
\* the matrix dp, row by row: dp holds the rows 0..i-1 with i = dp.length
RECURSIVE LevRows(_, _, _)
LevRows(str1, str2, dp) ==
    IF Len(dp) > Len(str1) THEN dp
    ELSE LevRows(str1, str2,
                 Append(dp, LevRow(dp[Len(dp)], <<Len(dp)>>, str1[Len(dp)], str2)))
\* dp[m][n]
levenshteinDistance(str1, str2) ==
    LevRows(str1, str2, <<[k \in 1..(Len(str2) + 1) |-> k - 1]>>)[Len(str1) + 1][Len(str2) + 1]

\* 1 - distance / maxLen
levenshteinSimilarity(str1, str2) ==
    LET maxLen == Max({Len(str1), Len(str2)})
    IN  IF maxLen = 0 THEN Frac(1, 1)
        ELSE Frac(maxLen - levenshteinDistance(ToLowerCase(str1) \o <<>>,
                                               ToLowerCase(str2) \o <<>>), maxLen)

\* tokenSim * 0.6 + levenSim * 0.4
WeightedAverage(tokenSim, levenSim) ==
    Frac(6 * tokenSim.num * levenSim.den + 4 * levenSim.num * tokenSim.den,
         10 * tokenSim.den * levenSim.den)

\* Variant: the types of the two features are not compared
featureSimilarity_IgnoreType(f1, f2) ==
    IF f1.project # f2.project THEN Frac(0, 1)
    ELSE WeightedAverage(calculateSimilarity(f1.title, f2.title),
                         levenshteinSimilarity(f1.title, f2.title))

\* the weighted average of the two title similarities, or 0 across
\* projects and across types
featureSimilarity(f1, f2) ==
    IF f1.project # f2.project THEN Frac(0, 1)
    ELSE IF f1.type # f2.type THEN Frac(0, 1)
    ELSE WeightedAverage(calculateSimilarity(f1.title, f2.title),
                         levenshteinSimilarity(f1.title, f2.title))

\* similarityThreshold = 0.5, and similarity >= similarityThreshold
similarityThreshold == Frac(1, 2)
AtLeast(x, y) == x.num * y.den >= y.num * x.den

\* [...set].sort((a, b) => a - b)
RECURSIVE SortNumbers(_)
SortNumbers(S) ==
    IF S = {} THEN <<>> ELSE <<Min(S)>> \o SortNumbers(S \ {Min(S)})

\* Variant: the two lists are concatenated
CombinePRs_Concat(prs1, prs2) == prs1 \o prs2

\* [...new Set([...f1.prs, ...f2.prs])].sort((a, b) => a - b)
CombinePRs(prs1, prs2) == SortNumbers(Range(prs1) \cup Range(prs2))

\* Variant: the start date of the first feature is kept
EarlierDate_First(d1, d2) == d1

\* new Date(d1) < new Date(d2) ? d1 : d2, and its mirror for the end date
EarlierDate(d1, d2) == IF d1 < d2 THEN d1 ELSE d2
LaterDate(d1, d2) == IF d1 > d2 THEN d1 ELSE d2

\* const base = f1.confidence === 'high' || f2.confidence === 'low' ? f1 : f2
MergeBase(f1, f2) == IF f1.confidence = "high" \/ f2.confidence = "low" THEN f1 ELSE f2

\* Variant: the confidence of the base feature is kept
MergedConfidence_OfBase(f1, f2) == MergeBase(f1, f2).confidence

\* let confidence = base.confidence; if (f1.confidence !== f2.confidence) ...
MergedConfidence(f1, f2) ==
    IF f1.confidence # f2.confidence THEN "medium" ELSE MergeBase(f1, f2).confidence

mergeFeatures(f1, f2) ==
    [project     |-> MergeBase(f1, f2).project,
     title       |-> MergeBase(f1, f2).title,
     description |-> MergeBase(f1, f2).description,
     type        |-> MergeBase(f1, f2).type,
     prs         |-> CombinePRs(f1.prs, f2.prs),
     startDate   |-> EarlierDate(f1.startDate, f2.startDate),
     endDate     |-> LaterDate(f1.endDate, f2.endDate),
     confidence  |-> MergedConfidence(f1, f2)]

\* groupByRepository: the projects in the order of their first feature, and
\* the features of a project in input order
RECURSIVE ProjectsInOrder(_, _, _)
ProjectsInOrder(fs, i, acc) ==
    IF i > Len(fs) THEN acc
    ELSE IF Includes(acc, fs[i].project) THEN ProjectsInOrder(fs, i + 1, acc)
    ELSE ProjectsInOrder(fs, i + 1, Append(acc, fs[i].project))
FeaturesOf(fs, project) == SelectSeq(fs, LAMBDA f : f.project = project)

\* Variant: the candidate stays in the pool
RemoveAt_Keep(seq, i) == seq

RemoveAt(seq, i) == SubSeq(seq, 1, i - 1) \o SubSeq(seq, i + 1, Len(seq))

\* the inner loop of mergeSimilarFeatures: while (i < remaining.length)
RECURSIVE AbsorbSimilar(_, _, _)
AbsorbSimilar(current, remaining, i) ==
    IF i > Len(remaining) THEN [current |-> current, remaining |-> remaining]
    ELSE IF AtLeast(featureSimilarity(current, remaining[i]), similarityThreshold)
    THEN AbsorbSimilar(mergeFeatures(current, remaining[i]), RemoveAt(remaining, i), i)
    ELSE AbsorbSimilar(current, remaining, i + 1)

\* the outer loop: while (remaining.length > 0)
RECURSIVE MergeRemaining(_, _), MergePush(_, _)
MergeRemaining(remaining, done) ==
    IF remaining = <<>> THEN done
    ELSE MergePush(AbsorbSimilar(Head(remaining), Tail(remaining), 1), done)
\* merged.push(current), and the next turn of the outer loop
MergePush(a, done) == MergeRemaining(a.remaining, Append(done, a.current))

mergeSimilarFeatures(fs) == IF Len(fs) <= 1 THEN fs ELSE MergeRemaining(fs, <<>>)

\* [...features].sort((a, b) => time(a.endDate) - time(b.endDate)), stable
RECURSIVE InsertByEndDate(_, _)
InsertByEndDate(sorted, f) ==
    IF sorted = <<>> THEN <<f>>
    ELSE IF sorted[Len(sorted)].endDate - f.endDate <= 0 THEN Append(sorted, f)
    ELSE Append(InsertByEndDate(SubSeq(sorted, 1, Len(sorted) - 1), f), sorted[Len(sorted)])

\* Variant: the features stay in the order of merging
sortFeatures_Unsorted(fs, i, acc) == fs

\* the sort, one feature after the other
RECURSIVE sortFeatures(_, _, _)
sortFeatures(fs, i, acc) ==
    IF i > Len(fs) THEN acc ELSE sortFeatures(fs, i + 1, InsertByEndDate(acc, fs[i]))

\* Variant: totalPRs is the number of features
CountPRs_Features(fs) == Len(fs)

\* allPRs.size, after allPRs.add(pr) for every pr of every feature
CountPRs(fs) == Cardinality(UNION {Range(fs[i].prs) : i \in 1..Len(fs)})

\* the ProjectSummary pushed for a repository and its sorted features
ProjectSummaryOf(repoFullName, sortedFeatures) ==
    [repoName     |-> IF SlashPositions(repoFullName) = {} THEN repoFullName
                      ELSE SplitSecond(repoFullName),
     repoFullName |-> repoFullName,
     features     |-> sortedFeatures,
     startDate    |-> Min({sortedFeatures[i].startDate : i \in 1..Len(sortedFeatures)}),
     endDate      |-> Max({sortedFeatures[i].endDate : i \in 1..Len(sortedFeatures)}),
     totalPRs     |-> CountPRs(sortedFeatures)]
\* one turn of the loop over the repository groups
Summarize(repoFullName, repoFeatures) ==
    ProjectSummaryOf(repoFullName, sortFeatures(mergeSimilarFeatures(repoFeatures), 1, <<>>))

\* summaries.sort((a, b) => time(a.startDate) - time(b.startDate)), stable
RECURSIVE InsertByStartDate(_, _)
InsertByStartDate(sorted, x) ==
    IF sorted = <<>> THEN <<x>>
    ELSE IF sorted[Len(sorted)].startDate - x.startDate <= 0 THEN Append(sorted, x)
    ELSE Append(InsertByStartDate(SubSeq(sorted, 1, Len(sorted) - 1), x),
                sorted[Len(sorted)])
RECURSIVE SortSummaries(_, _, _)
SortSummaries(ss, i, acc) ==
    IF i > Len(ss) THEN acc ELSE SortSummaries(ss, i + 1, InsertByStartDate(acc, ss[i]))

groupFeatures(fs) ==
    LET projects == ProjectsInOrder(fs, 1, <<>>)
    IN  SortSummaries([k \in 1..Len(projects) |->
                          Summarize(projects[k], FeaturesOf(fs, projects[k]))], 1, <<>>)

-----------------------------------------------------------------------------
(* groupFeatures and mergeFeatures on their own, over any list of features *)
(* Dates of features are day numbers of the year 2024.                     *)

ProjAB == <<"a","b","/","c">>
ProjCD == <<"c","d","/","e">>
TitleButton  == <<"A","d","d"," ","e","x","p","o","r","t"," ","b","u","t","t","o","n">>
TitleFeature == <<"A","d","d"," ","e","x","p","o","r","t"," ","f","e","a","t","u","r","e">>
TitleDocs    == <<"U","p","d","a","t","e"," ","d","o","c","s">>
TitleImport  == <<"A","d","d"," ","i","m","p","o","r","t"," ","f","e","a","t","u","r","e">>
TitleCI      == <<"C","I">>

\* the day number of a date of 2024, 0 for January 1
MonthDays == <<31, 29, 31, 30, 31, 30, 31, 31, 30, 31, 30, 31>>
RECURSIVE DayOfYear(_, _)
DayOfYear(month, day) ==
    IF month = 1 THEN day - 1 ELSE MonthDays[month - 1] + DayOfYear(month - 1, day)
Feb01 == DayOfYear(2, 1)
Feb20 == DayOfYear(2, 20)
Feb25 == DayOfYear(2, 25)
Mar01 == DayOfYear(3, 1)
Mar15 == DayOfYear(3, 15)

\* what the summarizer made of a PR, but for the PR number; description
\* names the kind
FeatureKinds ==
    <<[project |-> ProjAB, title |-> TitleButton,  type |-> "feature", confidence |-> "high",
       startDate |-> Feb20, endDate |-> Mar01, description |-> <<"1">>],
      [project |-> ProjAB, title |-> TitleFeature, type |-> "feature", confidence |-> "medium",
       startDate |-> Feb25, endDate |-> Mar15, description |-> <<"2">>],
      [project |-> ProjAB, title |-> TitleFeature, type |-> "feature", confidence |-> "medium",
       startDate |-> Feb01, endDate |-> Mar15, description |-> <<"3">>],
      [project |-> ProjAB, title |-> TitleButton,  type |-> "bugfix",  confidence |-> "low",
       startDate |-> Feb20 + 2, endDate |-> Mar01 + 5, description |-> <<"4">>],
      [project |-> ProjCD, title |-> TitleButton,  type |-> "feature", confidence |-> "high",
       startDate |-> Feb01 - 11, endDate |-> Feb01 + 9, description |-> <<"5">>],
      [project |-> ProjAB, title |-> TitleDocs,    type |-> "feature", confidence |-> "low",
       startDate |-> Feb20 - 5, endDate |-> Mar01 - 2, description |-> <<"6">>],
      [project |-> ProjAB, title |-> TitleButton,  type |-> "feature", confidence |-> "low",
       startDate |-> Mar01 - 2, endDate |-> Mar15 - 4, description |-> <<"7">>],
      [project |-> ProjCD, title |-> TitleFeature, type |-> "feature", confidence |-> "low",
       startDate |-> Feb01 - 21, endDate |-> Mar15 + 6, description |-> <<"8">>],
      [project |-> ProjAB, title |-> TitleCI,      type |-> "infra",   confidence |-> "medium",
       startDate |-> Feb01 + 2, endDate |-> Feb20 + 1, description |-> <<"9">>],
      [project |-> ProjAB, title |-> TitleImport,  type |-> "feature", confidence |-> "medium",
       startDate |-> Feb25 + 1, endDate |-> Mar15 + 2, description |-> <<"1","0">>]>>

\* the Feature of kind k for the PRs prs
MakeFeature(k, prs) ==
    [project |-> FeatureKinds[k].project, title |-> FeatureKinds[k].title,
     description |-> FeatureKinds[k].description, type |-> FeatureKinds[k].type,
     prs |-> prs, startDate |-> FeatureKinds[k].startDate,
     endDate |-> FeatureKinds[k].endDate, confidence |-> FeatureKinds[k].confidence]

MaxFeatures == 3    \* most features in an input of groupFeatures
\* the per-PR features of n PRs, numbered upwards or downwards
FeatureLists ==
    UNION {{[i \in 1..n |-> MakeFeature(ks[i], <<IF up THEN i ELSE n + 1 - i>>)] :
               ks \in [1..n -> 1..Len(FeatureKinds)], up \in BOOLEAN} : n \in 0..MaxFeatures}
\* two features with PR lists of any shape, for mergeFeatures
PRLists == {<<2>>, <<1, 2>>, <<3, 1>>, <<2, 2>>}
FeaturePairs ==
    {<<MakeFeature(k1, p1), MakeFeature(k2, p2)>> :
        k1 \in 1..Len(FeatureKinds), k2 \in 1..Len(FeatureKinds), p1 \in PRLists, p2 \in PRLists}

GroupInit ==
    /\ files = {} /\ dirExists = TRUE /\ now = 0 /\ enabled = TRUE /\ CacheIdle
    /\ ReqIdle
    /\ tz = 0 /\ remote = MakeRemote(<<>>, {}) /\ RunIdle
    /\ features \in FeatureLists \cup FeaturePairs
    /\ summaries = <<>> /\ mergeOut = NoFeature /\ gpc = "idle"
    /\ CliIdle /\ AuxIdle

\* a caller invokes groupFeatures(features)
GroupFeaturesOp ==
    /\ gpc = "idle"
    /\ summaries' = groupFeatures(features)
    /\ gpc' = "grouped"
    /\ UNCHANGED <<auxVars, cacheVars, reqVars, discVars, features, mergeOut, cliVars>>

\* a caller invokes mergeFeatures(features[0], features[1])
MergeFeaturesOp ==
    /\ gpc = "idle" /\ Len(features) = 2
    /\ mergeOut' = mergeFeatures(features[1], features[2])
    /\ gpc' = "merged"
    /\ UNCHANGED <<auxVars, cacheVars, reqVars, discVars, features, summaries, cliVars>>

GroupNext == GroupFeaturesOp \/ MergeFeaturesOp

SpecGroup == GroupInit /\ [][GroupNext]_vars

-----------------------------------------------------------------------------
(* The generate command: runGenerate (part_004) with summarizePRsBatch and *)
(* LLMFeatureSummarizer (part_002) over GeminiClient.complete (part_003).  *)
(* The options and the configuration are valid.  An answer of the text     *)
(* generator is [kind, items]: "throw" is an error of the API, "empty" an  *)
(* empty text, "garbage" a text that is not JSON, "json" the JSON of       *)
(* items, each [pr_number, title, description, type, confidence].          *)

validTypes == {"feature", "enhancement", "bugfix", "infra", "refactor"}
validConfidence == {"high", "medium", "low"}
MergedPRText == <<"M","e","r","g","e","d"," ","P","R"," ","#">>

\* `Merged PR #${pr.number}: ${pr.title}`
FallbackDescription(pr) == MergedPRText \o NumStr(pr.number) \o <<":", " ">> \o pr.title

createFallbackFeature(pr) ==
    [project |-> pr.repoFullName, title |-> pr.title,
     description |-> FallbackDescription(pr), type |-> "feature",
     prs |-> <<pr.number>>, startDate |-> pr.createdAt, endDate |-> pr.mergedAt,
     confidence |-> "low"]

\* { ...parsed, project, prs, startDate, endDate }
FeatureFor(parsed, pr) ==
    [project |-> pr.repoFullName, title |-> parsed.title,
     description |-> parsed.description, type |-> parsed.type,
     prs |-> <<pr.number>>, startDate |-> pr.createdAt, endDate |-> pr.mergedAt,
     confidence |-> parsed.confidence]

\* GeminiClient.complete throws LLMClientError on an error of the API and
\* on an empty text
CompleteThrows(answer) == answer.kind \in {"throw", "empty"}

\* parseFeatureResponse: the answer to a prompt about one PR is the JSON
\* object items[1], or a JSON value without fields when items is empty
parseFeatureResponse(response, pr) ==
    IF response.kind # "json"
    THEN [title |-> pr.title, description |-> FallbackDescription(pr),
          type |-> "feature", confidence |-> "low"]
    ELSE IF response.items = <<>>
    THEN [title |-> pr.title, description |-> FallbackDescription(pr),
          type |-> "feature", confidence |-> "medium"]
    ELSE [title |-> IF response.items[1].title = <<>> THEN pr.title
                    ELSE response.items[1].title,
          description |-> IF response.items[1].description = <<>>
                          THEN FallbackDescription(pr)
                          ELSE response.items[1].description,
          type |-> IF response.items[1].type \in validTypes
                   THEN response.items[1].type ELSE "feature",
          confidence |-> IF response.items[1].confidence \in validConfidence
                         THEN response.items[1].confidence ELSE "medium"]

\* LLMFeatureSummarizer.summarize: the catch turns every error of the call
\* into the fallback feature
summarize(pr, answer) ==
    IF CompleteThrows(answer) THEN createFallbackFeature(pr)
    ELSE FeatureFor(parseFeatureResponse(answer, pr), pr)

\* parseBatchResponse: the items with a pr_number, normalised; a later item
\* replaces an earlier one of the same pr_number
BatchItems(response) ==
    IF response.kind # "json" THEN <<>>
    ELSE SelectSeq(response.items, LAMBDA item : item.pr_number # 0)
NormalItem(item) ==
    [title |-> IF item.title = <<>> THEN <<"P", "R", " ", "#">> \o NumStr(item.pr_number)
               ELSE item.title,
     description |-> IF item.description = <<>> THEN MergedPRText \o NumStr(item.pr_number)
                     ELSE item.description,
     type |-> IF item.type \in validTypes THEN item.type ELSE "feature",
     confidence |-> IF item.confidence \in validConfidence THEN item.confidence
                    ELSE "medium"]
HasParsed(items, n) == \E i \in 1..Len(items) : items[i].pr_number = n
ParsedFor(items, n) ==
    NormalItem(items[Max({i \in 1..Len(items) : items[i].pr_number = n})])

\* Variant: the i-th record of the response is taken for the i-th PR
BatchFeatures_ByPosition(prs, response) ==
    [i \in 1..Len(prs) |->
        IF i <= Len(BatchItems(response))
        THEN FeatureFor(NormalItem(BatchItems(response)[i]), prs[i])
        ELSE createFallbackFeature(prs[i])]

\* the features summarizeBatch returns when the batch call answered
BatchFeatures(prs, response) ==
    [i \in 1..Len(prs) |->
        IF HasParsed(BatchItems(response), prs[i].number)
        THEN FeatureFor(ParsedFor(BatchItems(response), prs[i].number), prs[i])
        ELSE createFallbackFeature(prs[i])]

BatchSize == 5
\* prs.slice(i, i + batchSize) for the batch that starts at PR number first
BatchAt(prs, first) == SubSeq(prs, first, Min({first + BatchSize - 1, Len(prs)}))

\* ---- inputs ----

\* the PullRequest whose summary is the feature kind k
CliPR(k, n) ==
    [number |-> n, repoFullName |-> FeatureKinds[k].project, title |-> FeatureKinds[k].title,
     createdAt |-> FeatureKinds[k].startDate, mergedAt |-> FeatureKinds[k].endDate]
MaxCliPRs == 6      \* most PRs of a run: one full batch and one more
CliKinds == <<1, 2, 6, 5, 4, 7, 8, 3>>
CliPRLists == {[i \in 1..n |-> CliPR(CliKinds[i], i)] : n \in 0..MaxCliPRs}
CliOptions == [dryRun : BOOLEAN, fetchFails : BOOLEAN, writeFails : BOOLEAN]

LLMText == <<"o", "k">>
ItemFor(pr) ==
    [pr_number |-> pr.number, title |-> pr.title, description |-> LLMText,
     type |-> "feature", confidence |-> "high"]
Reverse(seq) == [i \in 1..Len(seq) |-> seq[Len(seq) + 1 - i]]
\* what the text generator may answer to a prompt about prs
Answers(prs) ==
    {[kind |-> "throw", items |-> <<>>], [kind |-> "empty", items |-> <<>>],
     [kind |-> "garbage", items |-> <<>>],
     [kind |-> "json", items |-> [i \in 1..Len(prs) |-> ItemFor(prs[i])]],
     [kind |-> "json", items |-> Reverse([i \in 1..(Len(prs) - 1) |-> ItemFor(prs[i + 1])])]}
\* a record without title and description, of a type and a confidence
\* that are not valid
BareItem(n) ==
    [pr_number |-> n, title |-> <<>>, description |-> <<>>, type |-> "chore",
     confidence |-> "certain"]
\* the answers to a prompt about two or more PRs: also a response with a
\* bare record for the first PR, a record without pr_number, a record of a
\* PR that was not asked about, and two records for the last PR
BatchAnswers(prs) ==
    Answers(prs) \cup
    {[kind |-> "json",
      items |-> <<BareItem(prs[1].number), BareItem(0),
                  [ItemFor(prs[1]) EXCEPT !.pr_number = 9],
                  [ItemFor(prs[Len(prs)]) EXCEPT !.confidence = "low", !.type = "bugfix"],
                  ItemFor(prs[Len(prs)])>>]}

CliInit ==
    /\ files = {} /\ dirExists = TRUE /\ now = 0 /\ enabled = TRUE /\ CacheIdle
    /\ ReqIdle
    /\ tz = 0 /\ remote = MakeRemote(<<>>, {}) /\ RunIdle
    /\ GroupIdle
    /\ cliPc = "fetching" /\ cliOpts \in CliOptions /\ cliPRs \in CliPRLists
    /\ cliPos = FirstBatch /\ llm = NoCalls /\ exitCode = NoExit
    /\ AuxIdle

\* process.exit(code), or the end of runGenerate with code 0
Exit(code) == cliPc' = "exited" /\ exitCode' = code

\* runGenerate up to the first call of the text generator: the fetch, the
\* empty result, the dry run
CliFetch ==
    /\ cliPc = "fetching"
    /\ IF cliOpts.fetchFails THEN Exit(1)
       ELSE IF cliPRs = <<>> THEN Exit(0)
       ELSE IF cliOpts.dryRun THEN Exit(0)
       ELSE cliPc' = "summarizing" /\ exitCode' = exitCode
    /\ UNCHANGED <<auxVars, cacheVars, reqVars, discVars, grpVars, cliOpts, cliPRs, cliPos, llm>>

\* the position after the batch that starts at first
NextBatch(first) ==
    IF first + BatchSize > Len(cliPRs)
    THEN cliPc' = "grouping" /\ cliPos' = cliPos
    ELSE cliPc' = cliPc /\ cliPos' = [batch |-> first + BatchSize, fallback |-> 0]

\* one call of client.complete and what summarizePRsBatch, summarizeBatch
\* and summarize do with its answer, up to the next call
CliComplete ==
    /\ cliPc = "summarizing"
    /\ \E batch \in {BatchAt(cliPRs, cliPos.batch)} :
          IF Len(batch) = 1 \/ cliPos.fallback > 0
          THEN \E k \in {IF Len(batch) = 1 THEN 1 ELSE cliPos.fallback} :
               \E answer \in Answers(<<batch[k]>>) :
                  /\ llm' = [calls |-> llm.calls + 1,
                             failed |-> llm.failed + (IF CompleteThrows(answer) THEN 1 ELSE 0),
                             last |-> answer]
                  /\ features' = Append(features, summarize(batch[k], answer))
                  /\ exitCode' = exitCode
                  /\ IF k = Len(batch) THEN NextBatch(cliPos.batch)
                     ELSE cliPc' = cliPc /\ cliPos' = [cliPos EXCEPT !.fallback = k + 1]
          ELSE \E answer \in BatchAnswers(batch) :
                  /\ exitCode' = exitCode
                  /\ IF CompleteThrows(answer)
                     THEN /\ llm' = [calls |-> llm.calls + 1, failed |-> llm.failed + 1,
                                     last |-> answer]
                          /\ cliPc' = cliPc /\ cliPos' = [cliPos EXCEPT !.fallback = 1]
                          /\ features' = features
                     ELSE /\ llm' = [llm EXCEPT !.calls = llm.calls + 1, !.last = answer]
                          /\ features' = features \o BatchFeatures(batch, answer)
                          /\ NextBatch(cliPos.batch)
    /\ UNCHANGED <<auxVars, cacheVars, reqVars, discVars, summaries, mergeOut, gpc, cliOpts, cliPRs>>

\* groupFeatures, the writing of the report and the end of runGenerate
CliReport ==
    /\ cliPc = "grouping"
    /\ summaries' = groupFeatures(features)
    /\ gpc' = "grouped"
    /\ IF cliOpts.writeFails THEN Exit(1) ELSE Exit(0)
    /\ UNCHANGED <<auxVars, cacheVars, reqVars, discVars, features, mergeOut, cliOpts, cliPRs, cliPos, llm>>

CliNext == CliFetch \/ CliComplete \/ CliReport

SpecCli == CliInit /\ [][CliNext]_vars

-----------------------------------------------------------------------------
(* Two callers of request() on one client: rateLimit (part_000 993-1003)   *)
(* taken at its await.  A caller reads the clock and lastRequestTime, may  *)
(* sleep, and only then stamps lastRequestTime and calls fetch.  Timers    *)
(* fire at their deadline; every response is a 200.                        *)

MaxRaceCalls == 2       \* requests per caller
MaxRaceTime  == 300     \* ms of clock after the client was constructed
RaceTicks == {10, 90, 100}

RaceInit ==
    /\ files = {} /\ dirExists = TRUE /\ now = NowBase /\ enabled = TRUE /\ CacheIdle
    /\ ReqIdle
    /\ tz = 0 /\ remote = MakeRemote(<<>>, {}) /\ RunIdle
    /\ GroupIdle /\ CliIdle
    /\ RaceIdle /\ pages = NoPages /\ clustering = NoClustering /\ searchLoop = NoSearchLoop

\* this.lastRequestTime = Date.now(); this.requestCount++; then fetch(url)
RaceStamp(c) ==
    /\ lastRequestTime' = now
    /\ requestCount' = requestCount + 1
    /\ sent' = Append(sent, now)
    /\ callers' = [callers EXCEPT ![c].pc = "fetch"]

\* caller c invokes request(): rateLimit up to its await, or to its end
\* when there is nothing to sleep
RaceEnter(c) ==
    /\ callers[c].pc = "idle" /\ callers[c].calls < MaxRaceCalls
    /\ IF RateLimitWake(now, lastRequestTime) > now
       THEN /\ callers' = [callers EXCEPT ![c].pc = "sleeping",
                                          ![c].wake = RateLimitWake(now, lastRequestTime)]
            /\ UNCHANGED <<lastRequestTime, requestCount, sent>>
       ELSE RaceStamp(c)
    /\ UNCHANGED <<cacheVars, retryCount, attempts, sleeps, reqResult, reqPc, inFlight,
                   discVars, grpVars, cliVars, pages, clustering, searchLoop>>

\* the sleep of caller c is over: the rest of rateLimit, and fetch
RaceWake(c) ==
    /\ callers[c].pc = "sleeping" /\ now >= callers[c].wake
    /\ RaceStamp(c)
    /\ UNCHANGED <<cacheVars, retryCount, attempts, sleeps, reqResult, reqPc, inFlight,
                   discVars, grpVars, cliVars, pages, clustering, searchLoop>>

\* the response to caller c arrives and request() returns
RaceRespond(c) ==
    /\ callers[c].pc = "fetch"
    /\ callers' = [callers EXCEPT ![c].pc = "idle", ![c].calls = callers[c].calls + 1]
    /\ UNCHANGED <<cacheVars, reqVars, discVars, grpVars, cliVars, sent, pages, clustering,
                   searchLoop>>

\* the clock advances, up to the next deadline of a sleeper
RaceTick(d) ==
    /\ now + d <= NowBase + MaxRaceTime
    /\ \A c \in Callers : callers[c].pc = "sleeping" => now + d <= callers[c].wake
    /\ now' = now + d
    /\ UNCHANGED <<files, dirExists, enabled, lastGet, reqVars, discVars, grpVars, cliVars,
                   auxVars>>

RaceNext ==
    \/ \E c \in Callers : RaceEnter(c) \/ RaceWake(c) \/ RaceRespond(c)
    \/ \E d \in RaceTicks : RaceTick(d)

SpecRace == RaceInit /\ [][RaceNext]_vars

-----------------------------------------------------------------------------
(* fetchAllPages (part_000 1071-1082) over a paginated listing, one        *)
(* request per step.  The server answers each page with its items and a    *)
(* Link header; parseLinkHeader (894-911) reads the next URL from it.      *)

GITHUB_API_BASE ==
    <<"h","t","t","p","s",":","/","/","a","p","i",".","g","i","t","h","u","b",".","c","o","m">>
Http == <<"h","t","t","p">>
PagesEndpoint == <<"/","u","s","e","r","/","o","r","g","s">>
Undefined == <<>>       \* undefined, null and the empty string alike
NoValue == <<"none">>   \* the call has not returned

\* the URL the server gives to page k of the listing
PageUrl(k) ==
    IF k = 1 THEN GITHUB_API_BASE \o PagesEndpoint
    ELSE GITHUB_API_BASE \o PagesEndpoint \o <<"?","p","a","g","e","=">> \o NumStr(k)

\* one entry of a Link header; gap is what stands between ; and rel
LinkEntry(url, rel, gap) ==
    <<"<">> \o url \o <<">", ";">> \o gap \o <<"r","e","l","=","\"">> \o rel \o <<"\"">>
RelPrev  == <<"p","r","e","v">>
RelNext  == <<"n","e","x","t">>
RelLast  == <<"l","a","s","t">>
RelFirst == <<"f","i","r","s","t">>
\* how a server writes the header: as GitHub does, without any white
\* space, or with the next link alone
LinkStyles == {"github", "tight", "nextOnly"}
\* the Link header of page k of n pages
LinkHeader(k, n, style) ==
    LET gap == IF style = "tight" THEN <<>> ELSE <<" ">>
        sep == IF style = "tight" THEN <<",">> ELSE <<",", " ">>
        prev  == IF k > 1 /\ style # "nextOnly"
                 THEN <<LinkEntry(PageUrl(k - 1), RelPrev, gap)>> ELSE <<>>
        next  == IF k < n THEN <<LinkEntry(PageUrl(k + 1), RelNext, gap)>> ELSE <<>>
        last  == IF k < n /\ style # "nextOnly"
                 THEN <<LinkEntry(PageUrl(n), RelLast, gap)>> ELSE <<>>
        first == IF k > 1 /\ style # "nextOnly"
                 THEN <<LinkEntry(PageUrl(1), RelFirst, gap)>> ELSE <<>>
    IN  Join(prev \o next \o last \o first, sep)

\* header.split(',')
RECURSIVE SplitOn(_, _)
SplitOn(s, c) ==
    LET cs == {i \in 1..Len(s) : s[i] = c}
    IN  IF cs = {} THEN <<s>>
        ELSE <<SubSeq(s, 1, Min(cs) - 1)>> \o SplitOn(SubSeq(s, Min(cs) + 1, Len(s)), c)

NoMatch == [ok |-> FALSE, url |-> <<>>, rel |-> <<>>]
RelEquals == <<"r","e","l","=","\"">>
\* /<([^>]+)>;\s*rel="([^"]+)"/ tried at position i of s
MatchAt(s, i) ==
    LET closes == {j \in (i + 1)..Len(s) : s[j] = ">"}
        j == Min(closes \cup {Len(s) + 1})
        k == Min({x \in (j + 2)..(Len(s) + 1) : x = Len(s) + 1 \/ s[x] # " "}
                 \cup {Len(s) + 1})
        quotes == {m \in (k + 5)..Len(s) : s[m] = "\""}
        q == Min(quotes \cup {Len(s) + 1})
    IN  IF /\ s[i] = "<" /\ j <= Len(s) /\ j > i + 1
           /\ j + 1 <= Len(s) /\ s[j + 1] = ";"
           /\ k + 4 <= Len(s) /\ SubSeq(s, k, k + 4) = RelEquals
           /\ q <= Len(s) /\ q > k + 5
        THEN [ok |-> TRUE, url |-> SubSeq(s, i + 1, j - 1), rel |-> SubSeq(s, k + 5, q - 1)]
        ELSE NoMatch
\* part.match(...): the leftmost match
LinkMatch(s) ==
    LET at == {i \in 1..Len(s) : MatchAt(s, i).ok}
    IN  IF at = {} THEN NoMatch ELSE MatchAt(s, Min(at))

\* for (const part of parts) { ... links[rel] = url }, from part i on
RECURSIVE ParseParts(_, _, _)
ParseParts(parts, i, links) ==
    IF i > Len(parts) THEN links
    ELSE LET match == LinkMatch(parts[i])
         IN  IF match.ok
             THEN ParseParts(parts, i + 1,
                             [r \in DOMAIN links \cup {match.rel} |->
                                 IF r = match.rel THEN match.url ELSE links[r]])
             ELSE ParseParts(parts, i + 1, links)

\* Variant: only the first link of the header is read
parseLinkHeader_FirstPart(header) ==
    IF header = Undefined THEN <<>>
    ELSE ParseParts(<<SplitOn(header, ",")[1]>>, 1, <<>>)

\* parseLinkHeader: the links of the header, by rel
parseLinkHeader(header) ==
    IF header = Undefined THEN <<>>
    ELSE ParseParts(SplitOn(header, ","), 1, <<>>)

\* response.pagination.next
NextOf(links) == IF RelNext \in DOMAIN links THEN links[RelNext] ELSE Undefined

\* const url = endpoint.startsWith('http') ? endpoint : GITHUB_API_BASE + endpoint
RequestUrl(endpoint) ==
    IF StartsWith(endpoint, Http) THEN endpoint ELSE GITHUB_API_BASE \o endpoint

\* ---- inputs ----

MaxPages == 3       \* most pages of a listing
MaxPageItems == 2   \* most items of a page
\* a listing: the number of items of each page, the page whose request
\* fails (0: none does), the style of the Link headers
PageSites ==
    UNION {[sizes : [1..n -> 0..MaxPageItems], failAt : 0..n, style : LinkStyles] :
              n \in 1..MaxPages}
\* the items of page k: item i of page k is 10 * k + i
PageItems(site, k) == [i \in 1..site.sizes[k] |-> 10 * k + i]
PageCount(site) == Len(site.sizes)
\* the page the server has at url, 0 if none
PageAt(site, url) ==
    IF \E k \in 1..PageCount(site) : PageUrl(k) = url
    THEN CHOOSE k \in 1..PageCount(site) : PageUrl(k) = url
    ELSE 0

PagesInit ==
    /\ files = {} /\ dirExists = TRUE /\ now = 0 /\ enabled = TRUE /\ CacheIdle
    /\ ReqIdle
    /\ tz = 0 /\ remote = MakeRemote(<<>>, {}) /\ RunIdle
    /\ GroupIdle /\ CliIdle
    /\ RaceIdle /\ clustering = NoClustering /\ searchLoop = NoSearchLoop
    /\ \E site \in PageSites : pages = [NoPages EXCEPT !.site = site]

\* const results = []; let nextUrl = `${GITHUB_API_BASE}${endpoint}`
PagesStart ==
    /\ pages.pc = "idle"
    /\ pages' = [pages EXCEPT !.pc = "loop", !.url = GITHUB_API_BASE \o PagesEndpoint]
    /\ UNCHANGED <<cacheVars, reqVars, discVars, grpVars, cliVars, callers, sent, clustering,
                   searchLoop>>

\* one turn of while (nextUrl): the request, results.push(...response.data),
\* nextUrl = response.pagination.next; and return results when it is unset
PagesRequest ==
    /\ pages.pc = "loop"
    /\ LET url  == RequestUrl(pages.url)
           k    == PageAt(pages.site, url)
           next == NextOf(parseLinkHeader(
                              LinkHeader(k, PageCount(pages.site), pages.site.style)))
           results == pages.results \o PageItems(pages.site, k)
       IN  IF k = 0 \/ k = pages.site.failAt
           THEN pages' = [pages EXCEPT !.pc = "thrown",
                                       !.requested = Append(pages.requested, url)]
           ELSE pages' = [pages EXCEPT
                             !.pc = IF next = Undefined THEN "returned" ELSE "loop",
                             !.url = next,
                             !.results = results,
                             !.requested = Append(pages.requested, url),
                             !.returned = IF next = Undefined THEN results ELSE NoValue]
    /\ UNCHANGED <<cacheVars, reqVars, discVars, grpVars, cliVars, callers, sent, clustering,
                   searchLoop>>

PagesNext == PagesStart \/ PagesRequest

SpecPages == PagesInit /\ [][PagesNext]_vars

-----------------------------------------------------------------------------
(* mergeSimilarFeatures (grouping.ts 162-197) step by step: one turn of    *)
(* the outer or of the inner loop per step.  The fields of clustering are  *)
(* the locals remaining, merged, current and i (counted from 1); input is  *)
(* the argument, turns counts the outer iterations begun and before is     *)
(* remaining.length when the last of them began.                           *)

MaxCluster == 4     \* most features of one project
\* the kinds of the features of a project: three titles of which the
\* first and the third are alike, the second and the third are alike and
\* the first and the second are not; a title of two letters; another type
ClusterKinds == <<7, 10, 2, 9, 4>>
\* the feature extracted from PR i is the i-th of the input
ClusterLists ==
    UNION {{[i \in 1..n |-> MakeFeature(ClusterKinds[ks[i]], <<i>>)] :
               ks \in [1..n -> 1..Len(ClusterKinds)]} : n \in 0..MaxCluster}

\* featureSimilarity looks at the project, the type and the title of its
\* arguments only; its value for every pair of these is computed once
SimilarityKey(f) == <<f.project, f.type, f.title>>
ClusterKeys == {SimilarityKey(FeatureKinds[ClusterKinds[k]]) : k \in 1..Len(ClusterKinds)}
KeyFeature(key) ==
    [NoFeature EXCEPT !.project = key[1], !.type = key[2], !.title = key[3]]
SimilarityTable ==
    [a \in ClusterKeys, b \in ClusterKeys |->
        featureSimilarity(KeyFeature(a), KeyFeature(b))]

ClusterInit ==
    /\ files = {} /\ dirExists = TRUE /\ now = 0 /\ enabled = TRUE /\ CacheIdle
    /\ ReqIdle
    /\ tz = 0 /\ remote = MakeRemote(<<>>, {}) /\ RunIdle
    /\ GroupIdle /\ CliIdle
    /\ RaceIdle /\ pages = NoPages /\ searchLoop = NoSearchLoop
    /\ \E fs \in ClusterLists : clustering = [NoClustering EXCEPT !.input = fs]

\* if (features.length <= 1) return features; remaining = [...features];
\* merged = []
ClusterStart ==
    /\ clustering.pc = "idle"
    /\ clustering' =
          IF Len(clustering.input) <= 1
          THEN [clustering EXCEPT !.pc = "returned", !.merged = clustering.input]
          ELSE [clustering EXCEPT !.pc = "outer", !.remaining = clustering.input,
                                  !.merged = <<>>]
    /\ UNCHANGED <<cacheVars, reqVars, discVars, grpVars, cliVars, callers, sent, pages,
                   searchLoop>>

\* while (remaining.length > 0) { let current = remaining.shift(); let i = 0;
\* and return merged when the pool is empty
ClusterShift ==
    /\ clustering.pc = "outer"
    /\ clustering' =
          IF clustering.remaining = <<>>
          THEN [clustering EXCEPT !.pc = "returned"]
          ELSE [clustering EXCEPT !.pc = "inner",
                                  !.current = Head(clustering.remaining),
                                  !.remaining = Tail(clustering.remaining),
                                  !.i = 1,
                                  !.turns = clustering.turns + 1,
                                  !.before = Len(clustering.remaining)]
    /\ UNCHANGED <<cacheVars, reqVars, discVars, grpVars, cliVars, callers, sent, pages,
                   searchLoop>>

\* one turn of while (i < remaining.length): merge and splice, or i++
ClusterCompare ==
    /\ clustering.pc = "inner" /\ clustering.i <= Len(clustering.remaining)
    /\ LET candidate == clustering.remaining[clustering.i]
       IN  clustering' =
              IF AtLeast(SimilarityTable[SimilarityKey(clustering.current),
                                         SimilarityKey(candidate)],
                         similarityThreshold)
              THEN [clustering EXCEPT
                       !.current = mergeFeatures(clustering.current, candidate),
                       !.remaining = RemoveAt(clustering.remaining, clustering.i)]
              ELSE [clustering EXCEPT !.i = clustering.i + 1]
    /\ UNCHANGED <<cacheVars, reqVars, discVars, grpVars, cliVars, callers, sent, pages,
                   searchLoop>>

\* the inner loop is over: merged.push(current)
ClusterPush ==
    /\ clustering.pc = "inner" /\ clustering.i > Len(clustering.remaining)
    /\ clustering' = [clustering EXCEPT !.pc = "outer",
                                        !.merged = Append(clustering.merged,
                                                          clustering.current)]
    /\ UNCHANGED <<cacheVars, reqVars, discVars, grpVars, cliVars, callers, sent, pages,
                   searchLoop>>

ClusterNext == ClusterStart \/ ClusterShift \/ ClusterCompare \/ ClusterPush

SpecCluster == ClusterInit /\ [][ClusterNext]_vars

\* the function runs to its end without waiting for anything: a step that
\* can be taken is taken
SpecClusterRun == SpecCluster /\ WF_vars(ClusterNext)

-----------------------------------------------------------------------------
(* The page-numbered search loops of fetchPRsViaGlobalSearch (part_000     *)
(* 1294-1308) and listMergedPRsViaSearch (1173-1186), one request per      *)
(* step.  Only the number of items of a page matters to the loop; the      *)
(* remote answers each request with any number of items and any            *)
(* total_count, or with an error.                                          *)

perPage == 100
MaxSearchPages == 4     \* most page requests of one loop
PageSizes   == {0, 99, perPage, perPage + 1}
TotalCounts == {0, 1, perPage, 2 * perPage, 2 * perPage + 1}
SearchLoops == {"global", "repo"}

\* Variant: the loop ends at a short page only
SearchStops_ShortPageOnly(size, count, total) == size < perPage

\* if (data.items.length < perPage || allItems.length >= data.total_count) break
SearchStops(size, count, total) == size < perPage \/ count >= total

SearchInit ==
    /\ files = {} /\ dirExists = TRUE /\ now = 0 /\ enabled = TRUE /\ CacheIdle
    /\ ReqIdle
    /\ tz = 0 /\ remote = MakeRemote(<<>>, {}) /\ RunIdle
    /\ GroupIdle /\ CliIdle
    /\ RaceIdle /\ pages = NoPages /\ clustering = NoClustering
    /\ searchLoop = NoSearchLoop

\* const allItems = []; let page = 1; const perPage = 100
SearchStart(which) ==
    /\ searchLoop.pc = "idle"
    /\ searchLoop' = [searchLoop EXCEPT !.pc = "loop", !.loop = which]
    /\ UNCHANGED <<cacheVars, reqVars, discVars, grpVars, cliVars, callers, sent, pages,
                   clustering>>

\* one turn of while (true): the request of the page, allItems.push(...),
\* and the break or page++
SearchPage(ok, size, total) ==
    /\ searchLoop.pc = "loop" /\ searchLoop.requests < MaxSearchPages
    /\ searchLoop' =
          IF ~ok
          THEN [searchLoop EXCEPT !.pc = "thrown", !.requests = searchLoop.requests + 1]
          ELSE [searchLoop EXCEPT
                   !.pc = IF SearchStops(size, searchLoop.items + size, total)
                          THEN "done" ELSE "loop",
                   !.page = IF SearchStops(size, searchLoop.items + size, total)
                            THEN searchLoop.page ELSE searchLoop.page + 1,
                   !.items = searchLoop.items + size,
                   !.requests = searchLoop.requests + 1,
                   !.size = size,
                   !.total = total,
                   !.first = IF searchLoop.requests = 0 THEN total ELSE searchLoop.first,
                   !.steady = searchLoop.steady
                              /\ (searchLoop.requests = 0 \/ total = searchLoop.first)]
    /\ UNCHANGED <<cacheVars, reqVars, discVars, grpVars, cliVars, callers, sent, pages,
                   clustering>>

SearchNext ==
    \/ \E which \in SearchLoops : SearchStart(which)
    \/ \E ok \in BOOLEAN, size \in PageSizes, total \in TotalCounts :
          SearchPage(ok, size, total)

SpecSearch == SearchInit /\ [][SearchNext]_vars

\* the loop awaits nothing but its requests, which all end
SpecSearchRun == SpecSearch /\ WF_vars(SearchNext)

-----------------------------------------------------------------------------
(* Properties of fetchAllMergedPRs, request, listMergedPRs and the cache   *)

\* The author of a returned PullRequest, as the remote records it
AuthorOf(rm, p) == DetailOf(rm, p.repoFullName, p.number).login
OwnerOf(p) == ToLowerCase(SplitFirst(p.repoFullName))
\* The cache file a run with these options reads
SearchFile(opts) ==
    getCachePath(generateKey(PrsPrefix,
                             SearchCacheKey(opts.username, opts.since, opts.until)))

\* C1: the list fetchAllMergedPRs returns holds at most one PullRequest per
\* (repoFullName, number), whichever strategies produced the candidates.
C1_AtMostOncePerKey ==
    pc = "done" =>
        \A i, j \in 1..Len(result) :
            (result[i].repoFullName = result[j].repoFullName
             /\ result[i].number = result[j].number) => i = j
\* a finished run whose strategies produced the same PR more than once
C1_Witness ==
    /\ pc = "done" /\ Len(result) > 0
    /\ \E i, j \in 1..Len(allPRs) :
          i < j /\ allPRs[i].repoFullName = allPRs[j].repoFullName
                /\ allPRs[i].number = allPRs[j].number

\* C2: a run in which some request ended in 401 or in a terminal rate-limit
\* error fails with that error; it never returns a list.
C2_FatalErrorsSurface ==
    pc = "done" => swallowed \cap {401, 429} = {}

\* C3: request sends a throttled request again at most 3 times, throws the
\* rate-limit error when the response after the third retry is throttled
\* too, and so ends after at most 4 attempts.
C3_BoundedRetries ==
    /\ attempts <= 4 /\ retryCount <= 3 /\ Len(sleeps) <= 3
    /\ reqPc = "sleep" => attempts <= 3
    /\ (reqPc = "fetch" /\ retryCount = 3) => (attempts = 3 /\ Len(sleeps) = 3)
    /\ (reqPc = "thrown" /\ reqResult.rateLimit) => (attempts = 4 /\ Len(sleeps) = 3)
    /\ (reqPc \in {"returned", "thrown"} /\ attempts = 4 /\ ~reqResult.rateLimit)
           => Len(sleeps) = 3
\* the fourth response was throttled and the call threw the rate-limit error
C3_Witness ==
    reqPc = "thrown" /\ reqResult.rateLimit /\ attempts = 4 /\ retryCount = 3

\* what the per-repo scan has to return for a PR of the listing
Qualifies(pr, username, since, until, tzo) ==
    /\ pr.merged_at # NullDate
    /\ ToLowerCase(pr.login) = ToLowerCase(username)
    /\ isDateInRange(pr.merged_at, since, until, tzo)
    /\ (pr.base = BrMain \/ pr.base = BrMaster \/ StartsWith(pr.base, RelPrefix))

\* C4: the per-repo scan returns every PR of the listing that is merged, by
\* the user (login compared case-insensitively), merged in the range and
\* based on an allowed branch, wherever it stands in the listing.
C4_ScanReturnsAllQualifying ==
    pc = "done" =>
        \A i \in 1..Len(ListingOf(remote, R1)) :
            Qualifies(ListingOf(remote, R1)[i], options.username, options.since,
                      options.until, tz)
            => \E j \in 1..Len(result) : result[j] = MakePR(R1, ListingOf(remote, R1)[i])

\* C5: every PullRequest fetchAllMergedPRs returns is by the requested user
\* and was merged in the requested range, on the search paths and on a
\* cache hit too.
C5_AuthorAndRange ==
    pc = "done" =>
        \A i \in 1..Len(result) :
            /\ ToLowerCase(AuthorOf(remote, result[i])) = ToLowerCase(options.username)
            /\ isDateInRange(result[i].mergedAt, options.since, options.until, tz)

\* C6: every PullRequest returned is merged and based on main, master or a
\* branch starting with "release/"; release/9.2 is let through wherever the
\* search answers with it, feature/x never is.
C6_MergedAllowedBase ==
    pc = "done" =>
        /\ \A i \in 1..Len(result) :
              /\ result[i].mergedAt # NullDate
              /\ \/ result[i].baseBranch = BrMain
                 \/ result[i].baseBranch = BrMaster
                 \/ /\ Len(result[i].baseBranch) >= 8
                    /\ SubSeq(result[i].baseBranch, 1, 8) = <<"r","e","l","e","a","s","e","/">>
              /\ result[i].baseBranch # BrFeature
        /\ (/\ Len(options.repos) = 0 /\ ~cacheHit /\ remote.faults = {}
            /\ [repo |-> R2, number |-> 1] \in Range(remote.hits[options.username])
            /\ shouldIncludeRepo(options, R2, options.username))
           => \E i \in 1..Len(result) : result[i].baseBranch = BrRelease
\* a scan of the organization's repository, whose listing has a PR on
\* release/9.2 and one on feature/x: the first is returned
C6_Witness ==
    /\ pc = "done" /\ Len(options.repos) > 0
    /\ \E i \in 1..Len(result) : result[i].baseBranch = BrRelease
    /\ \E i \in 1..Len(ListingOf(remote, R2)) : ListingOf(remote, R2)[i].base = BrFeature

\* C7: with scope personal every PullRequest returned is of a repository
\* the user owns, with scope orgs none is, whichever strategy found it.
C7_ScopeRespected ==
    pc = "done" =>
        \A i \in 1..Len(result) :
            /\ options.scope = "personal" => OwnerOf(result[i]) = ToLowerCase(options.username)
            /\ options.scope = "orgs" => OwnerOf(result[i]) # ToLowerCase(options.username)

\* C8: no PullRequest returned is of a repository named in the
\* exclude-list, whatever the search answered and whatever the cache held.
C8_ExcludedNeverReturned ==
    pc = "done" =>
        \A i \in 1..Len(result), k \in 1..Len(options.excludeRepos) :
            result[i].repoFullName # options.excludeRepos[k]
\* a cache hit on a list that holds a PR of the excluded repository
C8_Witness ==
    /\ pc = "done" /\ cacheHit /\ options.excludeRepos = <<R2>>
    /\ \E f \in files :
          /\ f.path = SearchFile(options)
          /\ \E k \in 1..Len(f.data) : f.data[k].repoFullName = R2

\* the list the run's options give against the remote without a cache
UncachedRun == fetchAllMergedPRs(remote, options, FALSE, {}, now, TRUE, tz)
\* the params of the set that wrote the file this run's search reads
WriterOf(store, opts) == FileAt(store, SearchFile(opts)).by.params

\* C9, as stated: a run answers with the list the same options give against
\* the same remote without a cache, whichever earlier run wrote the entry
\* it hits.
C9_CacheTransparent ==
    pc = "done" => (UncachedRun.ok /\ result = UncachedRun.prs)

\* C9, amended: a run answers with the list the same options give without a
\* cache when the entry it hits was written by a run for the same username,
\* since and until, whatever that run's filters were, and when it misses.
C9_CacheTransparentSameQuery ==
    (/\ pc = "done"
     /\ cacheHit => WriterOf(files, options)
                        = SearchCacheKey(options.username, options.since, options.until))
    => (UncachedRun.ok /\ result = UncachedRun.prs)
\* a hit on an entry of the same query that holds a PR this run's filters remove
C9_Witness ==
    /\ pc = "done" /\ cacheHit /\ Len(result) > 0
    /\ \E f \in files :
          /\ f.path = SearchFile(options)
          /\ f.by.params = SearchCacheKey(options.username, options.since, options.until)
          /\ \E k \in 1..Len(f.data) :
                \A i \in 1..Len(result) : result[i] # f.data[k]

\* C10, as stated: get returns stored data exactly when an entry written
\* for the same prefix and params exists, has the current version and is
\* at most 24 hours old; in every other case it answers absent.
C10_HitIffEntryForSameParams ==
    lastGet.called =>
        /\ lastGet.hit <=>
              \E f \in files :
                  /\ f.by = [prefix |-> lastGet.prefix, params |-> lastGet.params]
                  /\ f.version = 1
                  /\ now - f.timestamp <= 24 * 3600000
        /\ lastGet.hit =>
              \E f \in files :
                  /\ f.by = [prefix |-> lastGet.prefix, params |-> lastGet.params]
                  /\ lastGet.data = f.data

\* C10, amended: get of an enabled cache returns stored data exactly when
\* the file of the generated key exists, has the current version and is at
\* most 24 hours old; the data is that of the last set under any prefix and
\* params with that key.  A disabled cache answers absent.
C10_HitIffFileOfKey ==
    lastGet.called =>
        /\ lastGet.hit <=>
              /\ enabled
              /\ \E f \in files :
                    /\ generateKey(f.by.prefix, f.by.params)
                           = generateKey(lastGet.prefix, lastGet.params)
                    /\ f.version = 1
                    /\ now - f.timestamp <= 24 * 3600000
        /\ lastGet.hit =>
              \E f \in files :
                  /\ generateKey(f.by.prefix, f.by.params)
                         = generateKey(lastGet.prefix, lastGet.params)
                  /\ lastGet.data = f.data
\* a hit on an entry exactly 24 hours old that was written for other params
C10_Witness ==
    /\ lastGet.called /\ lastGet.hit
    /\ \E f \in files :
          /\ f.path = getCachePath(generateKey(lastGet.prefix, lastGet.params))
          /\ now - f.timestamp = 24 * 3600000
          /\ f.by.params # lastGet.params

\* C11: on a Cache constructed with caching disabled every operation is a
\* no-op: get answers absent, set writes no file, clear deletes no file,
\* and the cache directory is not created.
C11_DisabledIsNoOp ==
    [][(~enabled /\ ~enabled') =>
          (files' = files /\ dirExists' = dirExists /\ ~lastGet'.hit)]_vars

\* C12: the global-search strategy calls cache.get under {username, since,
\* until, type: search} before any request; on a hit it sends no request at
\* all and returns the cached PRs filtered by the run's inclusion rules.
C12_CacheReadFirst ==
    (pc \in {"orgs", "dedup", "done", "failed"} /\ Len(options.repos) = 0) =>
        /\ Len(requests) > 0 /\ requests[1].class = "cacheGet"
        /\ cacheHit =>
              /\ \A k \in 1..Len(requests) : requests[k].class # "search"
              /\ (pc = "orgs" \/ options.skipOrgScan) => Len(requests) = 1
              /\ pc # "failed"
              /\ searchPRs =
                    SelectSeq(FileAt(files, SearchFile(options)).data,
                              LAMBDA pr : shouldIncludeRepo(options, pr.repoFullName,
                                                            options.username))
\* a hit that answered the strategy with cached PRs
C12_Witness ==
    pc = "orgs" /\ cacheHit /\ Len(searchPRs) > 0 /\ Len(requests) = 1

\* C13: requests issued one after another on one client, retries included,
\* start at least 100 ms apart: rateLimit() sleeps the remainder of the
\* interval when it is called sooner.
C13_Pacing ==
    [][(reqPc = "rateLimit" /\ reqPc' = "fetch") =>
          (/\ lastRequestTime' - lastRequestTime >= 100
           /\ now' = (IF now - lastRequestTime < 100 THEN lastRequestTime + 100 ELSE now)
           /\ lastRequestTime' = now')]_vars
\* the second request of a client, called 20 ms after the first started,
\* starts 100 ms after it
C13_Witness ==
    reqPc = "fetch" /\ requestCount = 2 /\ lastRequestTime = NowBase + 100

\* C15: every backoff sleep lasts max(resetEpochMs - now + 1000, 1000) ms
\* capped at 300000 ms when the throttling response carries a reset time,
\* and 60000 ms when it carries none: between 1 second and 5 minutes.
C15_BackoffWait ==
    [][(reqPc = "sleep" /\ reqPc' = "rateLimit") =>
          LET s == sleeps[Len(sleeps)]
          IN  /\ now' - now = s.wait
              /\ s.reset = NoReset => s.wait = 60000
              /\ s.reset # NoReset =>
                    s.wait = Min({Max({s.reset * 1000 - s.at + 1000, 1000}), 300000})
              /\ s.wait >= 1000 /\ s.wait <= 300000]_vars
\* a call that slept the floor, the cap and the default
C15_Witness ==
    /\ reqPc = "rateLimit" /\ Len(sleeps) = 3
    /\ \E i, j, k \in 1..3 :
          /\ sleeps[i].wait = 1000 /\ sleeps[i].reset # NoReset
          /\ sleeps[j].wait = 300000 /\ sleeps[j].reset # NoReset
          /\ sleeps[k].wait = 60000 /\ sleeps[k].reset = NoReset


\* C14: during a run of fetchAllMergedPRs at most one request is in flight
\* at any time, whether it is a page, a PR detail or a retry
C14_OneInFlight == inFlight <= 1

\* a retried detail request is in flight after earlier requests of the run
C14_Witness ==
    /\ reqPc = "fetch" /\ inFlight = 1 /\ retryCount = 2
    /\ requests # <<>> /\ requests[1].class = "detail"
    /\ requestCount >= 5


\* 23:59:59.999 of the day the date-only string until names
EndOfUntilDay(until) == ParseDate(until) + DayMs - 1

\* C16: in the per-repo scan a merged PR of the user on an allowed base
\* branch is kept when merged at 23:59:59 of the until day and rejected when
\* merged at 00:00:00 of the next day: it is kept exactly when
\* since <= mergedAt <= 23:59:59.999 of the until day.  (PRs that stand
\* behind a PR merged before since are left aside.)
C16_UntilDayBoundary ==
    pc = "done" =>
        LET l == ListingOf(remote, R1)
        IN  \A i \in 1..Len(l) :
                (/\ l[i].merged_at # NullDate
                 /\ ToLowerCase(l[i].login) = ToLowerCase(options.username)
                 /\ isAllowedBaseBranch(l[i].base)
                 /\ \A k \in 1..(i - 1) :
                       l[k].merged_at = NullDate \/ l[k].merged_at >= ParseDate(options.since))
                => ((\E j \in 1..Len(result) : result[j] = MakePR(R1, l[i]))
                    <=> (/\ ParseDate(options.since) <= l[i].merged_at
                         /\ l[i].merged_at <= EndOfUntilDay(options.until)))


\* the requests of one class in a trace
OfClass(reqs, class) == SelectSeq(reqs, LAMBDA q : q.class = class)

\* C17: with a non-empty explicit repo list fetchAllMergedPRs runs only the
\* per-repo scan, once for each listed repo that is not excluded and in the
\* order of the list: it sends no global search, lists no organization and
\* no organization's repositories, and neither reads nor writes the cache.
C17_ExplicitListOnly ==
    [][(pc = "start" /\ Len(options.repos) > 0) =>
          LET todo == SelectSeq(options.repos, LAMBDA x : ~Includes(options.excludeRepos, x))
          IN  /\ \A k \in 1..Len(requests') :
                    /\ requests'[k].class \in {"listing", "repoSearch", "detail"}
                    /\ Includes(todo, requests'[k].target)
              /\ OfClass(requests', "listing") = [k \in 1..Len(todo) |-> Req("listing", todo[k])]
              /\ files' = files /\ lastGet' = lastGet /\ ~cacheHit'
              /\ pc' = "dedup"]_vars

\* a run over an explicit list with an excluded repo, caching enabled and an
\* entry in the cache, has delivered PRs
C17_Witness ==
    /\ pc = "done" /\ Len(options.repos) > 0 /\ options.excludeRepos = <<R2>>
    /\ options.cache /\ files # {}
    /\ Len(result) > 0 /\ Len(requests) > 0


\* C18: the organization sweep issues requests (the listing of the user's
\* organizations, the listing of an organization's repositories, a per-repo
\* scan) only in runs without skipOrgScan and without an explicit repo list;
\* in a run with either, the sweep is not entered and none of its requests
\* is issued.
C18_SweepOnlyWhenEnabled ==
    (pc # "idle" /\ (options.skipOrgScan \/ Len(options.repos) > 0)) =>
        /\ pc # "orgs"
        /\ \A k \in 1..Len(requests) : requests[k].class \notin {"userOrgs", "orgRepos"}
        /\ Len(options.repos) = 0 =>
              \A k \in 1..Len(requests) : requests[k].class \notin {"listing", "repoSearch"}

\* a --fast run over organizations given by name has finished with PRs
C18_Witness ==
    /\ pc = "done" /\ options.skipOrgScan /\ Len(options.repos) = 0
    /\ options.orgs = <<Org>> /\ options.scope = "all"
    /\ Len(result) > 0 /\ ~cacheHit


\* the run has asked for the user's organizations and the request failed
OrgListingFailed ==
    /\ StatusOf(remote, "userOrgs", AnyTarget) # 200
    /\ OfClass(requests, "userOrgs") # <<>>

\* C19: when the listing of the user's organizations fails, the set of
\* organizations is empty (no organization's repositories are listed, no
\* repository is scanned) and the run does not fail: it returns the PRs of
\* the global search, each once and in the order of their merge instants.
C19_OrgListingFailureTolerated ==
    OrgListingFailed =>
        /\ pc \in {"dedup", "done"}
        /\ \A k \in 1..Len(requests) :
              requests[k].class \notin {"orgRepos", "listing", "repoSearch"}
        /\ allPRs = searchPRs
        /\ pc = "done" =>
              /\ {result[i] : i \in 1..Len(result)} = {searchPRs[i] : i \in 1..Len(searchPRs)}
              /\ \A i, j \in 1..Len(result) :
                    /\ (i # j) => PRKey(result[i].repoFullName, result[i].number)
                                    # PRKey(result[j].repoFullName, result[j].number)
                    /\ (i < j) => result[i].mergedAt <= result[j].mergedAt

\* a run whose organization listing was refused with 401 has returned PRs
C19_Witness ==
    /\ OrgListingFailed /\ StatusOf(remote, "userOrgs", AnyTarget) = 401
    /\ pc = "done" /\ Len(result) > 0 /\ ~cacheHit


\* the listing of the repo and its search-based scan both fail
Inaccessible(rm, repoFullName) ==
    /\ ListingStatus(rm, repoFullName) # 200
    /\ StatusOf(rm, "repoSearch", repoFullName) # 200

\* C20: a failed closed-PR listing of a repository is followed by the
\* search-based scan of that repository; a repository whose search-based
\* scan fails too contributes no PR, the other repositories of the list are
\* scanned all the same, and the run fails only when the global search does.
C20_InaccessibleRepoSkipped ==
    /\ \A k \in 1..Len(requests) :
          (requests[k].class = "listing" /\ ListingStatus(remote, requests[k].target) # 200)
          => /\ k < Len(requests)
             /\ requests[k + 1] = Req("repoSearch", requests[k].target)
    /\ \A i \in 1..Len(allPRs) :
          Inaccessible(remote, allPRs[i].repoFullName)
          => \E j \in 1..Len(searchPRs) : searchPRs[j] = allPRs[i]
    /\ (pc \in {"dedup", "done"} /\ Len(options.repos) > 0) =>
          \A i \in 1..Len(options.repos) :
              Includes(options.excludeRepos, options.repos[i])
              \/ \E k \in 1..Len(requests) : requests[k] = Req("listing", options.repos[i])
    /\ pc = "failed" => requests[Len(requests)].class = "search"

\* a run over the list oo/r, aa/p, oo/r, with oo/r inaccessible, has
\* returned the PRs of aa/p
C20_Witness ==
    /\ pc = "done" /\ options.repos = <<R2, R1, R2>> /\ options.excludeRepos = <<>>
    /\ Inaccessible(remote, R2) /\ ~Inaccessible(remote, R1)
    /\ Len(result) > 0
    /\ requests = <<Req("listing", R2), Req("repoSearch", R2), Req("listing", R1),
                    Req("listing", R2), Req("repoSearch", R2)>>


\* C21: the list fetchAllMergedPRs returns is in ascending order of
\* mergedAt: no element is merged later than the element that follows it,
\* in whatever order the strategies delivered the PRs.
C21_SortedByMergedAt ==
    pc = "done" =>
        \A i \in 1..(Len(result) - 1) : result[i].mergedAt <= result[i + 1].mergedAt

\* a finished run whose strategies delivered a later-merged PR before an
\* earlier-merged one
C21_Witness ==
    /\ pc = "done" /\ Len(result) >= 2
    /\ \E i, j \in 1..Len(allPRs) : i < j /\ allPRs[i].mergedAt > allPRs[j].mergedAt


\* the numbers of the PRs in the order the remote hands them to the scan:
\* the closed-PR listing, or the answer of the per-repo search when the
\* listing fails
RemoteOrder(rm, repoFullName, username) ==
    IF ListingStatus(rm, repoFullName) = 200
    THEN [k \in 1..Len(ListingOf(rm, repoFullName)) |-> ListingOf(rm, repoFullName)[k].number]
    ELSE [k \in 1..Len(RepoHits(rm, username, repoFullName)) |->
              RepoHits(rm, username, repoFullName)[k].number]
PosIn(seq, x) == Min({k \in 1..Len(seq) : seq[k] = x})

OutputFeatures ==
    UNION {Range(summaries[k].features) : k \in 1..Len(summaries)}
\* the input feature f went into the output Feature g
MergedInto(f, g) == f.project = g.project /\ Range(f.prs) \subseteq Range(g.prs)

\* C23: every Feature groupFeatures returns combines only input features of
\* its own project and its own type: input features of different types (or
\* projects) are never in one output Feature, also when the pivot they are
\* compared with is itself the result of a merge.  The inputs are per-PR
\* features, so that its PR number tells where an input went.
C23_TypeAndProjectIsolation ==
    (gpc = "grouped" /\ features \in FeatureLists) =>
        /\ \A k \in 1..Len(summaries) : \A g \in Range(summaries[k].features) :
              g.project = summaries[k].repoFullName
        /\ \A g \in OutputFeatures : \A i \in 1..Len(features) :
              Range(features[i].prs) \subseteq Range(g.prs)
              => (features[i].project = g.project /\ features[i].type = g.type)

\* a project's features of the same title and of two types were grouped:
\* those of one type were merged, the other type stayed apart
C23_Witness ==
    /\ gpc = "grouped" /\ features \in FeatureLists
    /\ \E g, h \in OutputFeatures :
          /\ g.project = h.project /\ g.title = h.title /\ g.type # h.type
          /\ Len(g.prs) = 2 /\ Len(h.prs) = 1


\* high over medium over low
ConfidenceRank(c) == CASE c = "high" -> 3 [] c = "medium" -> 2 [] OTHER -> 1

\* C24: mergeFeatures(f1, f2) takes title, description and type from the
\* more confident of its inputs, and from the first argument when the two
\* are equally confident, also when both are medium.
C24_BaseIsMoreConfidentFirstOnTie ==
    gpc = "merged" =>
        LET f1 == features[1]
            f2 == features[2]
            expected == IF ConfidenceRank(f2.confidence) > ConfidenceRank(f1.confidence)
                        THEN f2 ELSE f1
        IN  /\ mergeOut.title = expected.title
            /\ mergeOut.description = expected.description
            /\ mergeOut.type = expected.type


\* strictly ascending: ascending and without duplicates
StrictlyAscending(seq) == \A i \in 1..(Len(seq) - 1) : seq[i] < seq[i + 1]

\* C25: the prs of mergeFeatures(f1, f2) hold exactly the PR numbers of
\* f1.prs and f2.prs, each once and in ascending order; every Feature that
\* groupFeatures builds from per-PR features has a duplicate-free ascending
\* prs list.
C25_PRsAreSortedUnion ==
    /\ gpc = "merged" =>
          /\ Range(mergeOut.prs) = Range(features[1].prs) \cup Range(features[2].prs)
          /\ StrictlyAscending(mergeOut.prs)
    /\ (gpc = "grouped" /\ features \in FeatureLists) =>
          \A g \in OutputFeatures : StrictlyAscending(g.prs)

\* two PR lists that overlap, the first one not ascending, were merged
C25_Witness ==
    /\ gpc = "merged"
    /\ features[1].prs = <<3, 1>> /\ features[2].prs = <<1, 2>>
    /\ mergeOut.prs = <<1, 2, 3>>

\* C26: the confidence of mergeFeatures(f1, f2) is medium when the two
\* confidences differ and the shared value when they are equal; a Feature
\* of groupFeatures is high (or low) only if every input feature merged
\* into it was high (or low).
C26_ConfidenceOnlyDowngrades ==
    /\ gpc = "merged" =>
          mergeOut.confidence = IF features[1].confidence # features[2].confidence
                                THEN "medium" ELSE features[1].confidence
    /\ (gpc = "grouped" /\ features \in FeatureLists) =>
          \A g \in OutputFeatures : g.confidence \in {"high", "low"} =>
              \A i \in 1..Len(features) :
                  MergedInto(features[i], g) => features[i].confidence = g.confidence

\* a high, a low and a high feature were merged into one medium Feature
C26_Witness ==
    /\ gpc = "grouped" /\ features \in FeatureLists /\ Len(features) = 3
    /\ features[1].confidence = "high" /\ features[2].confidence = "low"
    /\ features[3].confidence = "high"
    /\ \E g \in OutputFeatures : Len(g.prs) = 3 /\ g.confidence = "medium"

\* the input is the features of PR #1 of a/b, "Add export button" merged
\* 2024-03-01, and of PR #2 of a/b, "Add export feature" merged 2024-03-15,
\* both of type feature, in either order
ExportScenario ==
    /\ Len(features) = 2
    /\ \E i, j \in 1..2 :
          /\ i # j
          /\ features[i].prs = <<1>> /\ features[j].prs = <<2>>
          /\ features[i].project = ProjAB /\ features[j].project = ProjAB
          /\ features[i].type = "feature" /\ features[j].type = "feature"
          /\ features[i].title = TitleButton /\ features[j].title = TitleFeature
          /\ features[i].endDate = Mar01 /\ features[j].endDate = Mar15
\* the feature of PR number n in the input
FeatureOfPR(n) == features[CHOOSE i \in 1..Len(features) : features[i].prs = <<n>>]
\* one ProjectSummary for a/b with one Feature of PRs 1 and 2 that starts
\* at startDate and ends on 2024-03-15
ExportResult(startDate) ==
    /\ Len(summaries) = 1
    /\ summaries[1].repoFullName = ProjAB
    /\ Len(summaries[1].features) = 1
    /\ summaries[1].features[1].prs = <<1, 2>>
    /\ summaries[1].features[1].startDate = startDate
    /\ summaries[1].features[1].endDate = Mar15

\* C27 as stated: the one Feature starts at the createdAt of PR #1.
C27_ExportScenario_Stated ==
    (gpc = "grouped" /\ ExportScenario) => ExportResult(FeatureOfPR(1).startDate)

\* C27: when PR #1 was created no later than PR #2, groupFeatures returns
\* one ProjectSummary for a/b with one Feature, prs = [1, 2], whose
\* startDate is the createdAt of PR #1 and whose endDate is 2024-03-15.
C27_ExportScenario ==
    (/\ gpc = "grouped" /\ ExportScenario
     /\ FeatureOfPR(1).startDate <= FeatureOfPR(2).startDate)
    => ExportResult(FeatureOfPR(1).startDate)

\* the scenario was grouped with PR #2 ahead of PR #1 in the input and
\* created after it
C27_Witness ==
    /\ gpc = "grouped" /\ ExportScenario
    /\ features[1].prs = <<2>>
    /\ FeatureOfPR(1).startDate < FeatureOfPR(2).startDate
    /\ Len(summaries) = 1 /\ Len(summaries[1].features) = 1

\* the PR numbers of the input features of a project
InputPRs(project) ==
    UNION {Range(features[i].prs) : i \in {j \in 1..Len(features) : features[j].project = project}}

\* C28: the totalPRs of a ProjectSummary is the number of distinct PR
\* numbers of its features, which is the number of distinct PR numbers of
\* the input features of its project, however many features were merged.
C28_TotalPRsCountsDistinct ==
    gpc = "grouped" =>
        \A k \in 1..Len(summaries) :
            /\ summaries[k].totalPRs =
                  Cardinality(UNION {Range(g.prs) : g \in Range(summaries[k].features)})
            /\ summaries[k].totalPRs = Cardinality(InputPRs(summaries[k].repoFullName))

\* a project of three PRs came out as two Features
C28_Witness ==
    /\ gpc = "grouped"
    /\ \E k \in 1..Len(summaries) :
          /\ Len(summaries[k].features) = 2
          /\ summaries[k].totalPRs = 3

\* C29: in the output of groupFeatures the features of every
\* ProjectSummary are in ascending order of endDate and the
\* ProjectSummaries are in ascending order of startDate.
C29_ChronologicalOrder ==
    gpc = "grouped" =>
        /\ \A k \in 1..Len(summaries) :
              \A i \in 1..(Len(summaries[k].features) - 1) :
                  summaries[k].features[i].endDate <= summaries[k].features[i + 1].endDate
        /\ \A k \in 1..(Len(summaries) - 1) :
              summaries[k].startDate <= summaries[k + 1].startDate

\* two projects came out in the reverse of their input order, one of them
\* with Features that merging had left out of date order
C29_Witness ==
    /\ gpc = "grouped" /\ Len(summaries) = 2
    /\ features[1].project = summaries[2].repoFullName
    /\ \E k \in 1..2 :
          /\ Len(summaries[k].features) = 2
          /\ summaries[k].features #
                mergeSimilarFeatures(FeaturesOf(features, summaries[k].repoFullName))


\* C30: when a call of the text generator fails, by an error or by an empty
\* completion, while generate summarizes the PRs, the command ends with
\* exit code 1.
C30_LLMFailureExitsOne ==
    (cliPc = "exited" /\ llm.failed > 0) => exitCode = 1


\* a step of summarizeBatch on the batch at cliPos whose first call of the
\* text generator answered, and the Features it returned
BatchAnswered ==
    /\ cliPc = "summarizing" /\ cliPos.fallback = 0
    /\ llm'.calls = llm.calls + 1 /\ ~CompleteThrows(llm'.last)
ReturnedFeatures == SubSeq(features', Len(features) + 1, Len(features'))
\* project, prs, startDate and endDate of f are those of pr
CarriesPR(f, pr) ==
    /\ f.project = pr.repoFullName /\ f.prs = <<pr.number>>
    /\ f.startDate = pr.createdAt /\ f.endDate = pr.mergedAt
\* title, description, type and confidence of f are those of the record,
\* with the defaults for what the record lacks
TakenFrom(f, record) ==
    /\ f.title = IF record.title # <<>> THEN record.title
                 ELSE <<"P", "R", " ", "#">> \o NumStr(record.pr_number)
    /\ f.description = IF record.description # <<>> THEN record.description
                       ELSE MergedPRText \o NumStr(record.pr_number)
    /\ f.type = IF record.type \in validTypes THEN record.type ELSE "feature"
    /\ f.confidence = IF record.confidence \in validConfidence THEN record.confidence
                      ELSE "medium"
\* the low-confidence fallback built from the raw title
IsFallback(f, pr) ==
    /\ f.title = pr.title /\ f.type = "feature" /\ f.confidence = "low"
    /\ f.description = FallbackDescription(pr)
\* the positions of the records of the response that carry the number n
RecordsOf(answer, n) ==
    IF answer.kind # "json" THEN {}
    ELSE {j \in 1..Len(answer.items) : answer.items[j].pr_number = n}

\* C31 as stated: for every batch, one Feature per PR in input order, the
\* i-th with the PR fields of the i-th PR and the summary fields of a
\* record of the response that carries its number, or the low-confidence
\* fallback when no record does.
C31_MatchedByNumber_Stated ==
    [][BatchAnswered =>
         \E batch \in {BatchAt(cliPRs, cliPos.batch)} :
            /\ Len(ReturnedFeatures) = Len(batch)
            /\ \A i \in 1..Len(batch) :
                  /\ CarriesPR(ReturnedFeatures[i], batch[i])
                  /\ IF RecordsOf(llm'.last, batch[i].number) = {}
                     THEN IsFallback(ReturnedFeatures[i], batch[i])
                     ELSE \E j \in RecordsOf(llm'.last, batch[i].number) :
                             TakenFrom(ReturnedFeatures[i], llm'.last.items[j])]_vars

\* C31: for a batch of two or more PRs whose call answered, summarizeBatch
\* returns one Feature per PR in input order, the i-th with project, prs,
\* startDate and endDate of the i-th PR and with title, description, type
\* and confidence of the last record of the response that carries its
\* number, whatever the order and the number of the records; a PR without
\* such a record gets the low-confidence fallback built from its raw title.
C31_MatchedByNumber ==
    [][(BatchAnswered /\ Len(BatchAt(cliPRs, cliPos.batch)) >= 2) =>
         \E batch \in {BatchAt(cliPRs, cliPos.batch)} :
            /\ Len(ReturnedFeatures) = Len(batch)
            /\ \A i \in 1..Len(batch) :
                  /\ CarriesPR(ReturnedFeatures[i], batch[i])
                  /\ IF RecordsOf(llm'.last, batch[i].number) = {}
                     THEN IsFallback(ReturnedFeatures[i], batch[i])
                     ELSE TakenFrom(ReturnedFeatures[i],
                                    llm'.last.items[Max(RecordsOf(llm'.last, batch[i].number))])]_vars

\* the first call of a run of three or more PRs answered with the records
\* in reverse order and without one for the first PR: the first Feature is
\* the fallback, the last one is taken from the first record
C31_Witness ==
    /\ llm.calls = 1 /\ llm.last.kind = "json" /\ Len(features) >= 3
    /\ Len(llm.last.items) = Len(features) - 1
    /\ llm.last.items[1].pr_number = features[Len(features)].prs[1]
    /\ features[1].confidence = "low" /\ features[Len(features)].confidence = "high"


\* C32: with two callers of request on one client, any two calls of fetch
\* are at least minRequestInterval apart.
C32_ConcurrentCallsSpaced ==
    \A i, j \in 1..Len(sent) : i < j => sent[j] - sent[i] >= minRequestInterval


\* every request of a global-search run for these options succeeds: the
\* search query and the detail fetch of every hit
SearchRunClean(rm, opts) ==
    /\ StatusOf(rm, "search", AnyTarget) = 200
    /\ \A i \in 1..Len(rm.hits[opts.username]) :
          DetailStatus(rm, rm.hits[opts.username][i].repo,
                       rm.hits[opts.username][i].number) = 200

\* C33: the global-search strategy writes its cache entry only in a run in
\* which the search query and every per-hit detail fetch succeeded; a run
\* in which one of them failed leaves the cache directory as it was.
C33_CacheWrittenOnlyAfterCleanRun ==
    [][(pc = "start" /\ files' # files) => SearchRunClean(remote, options)]_vars


\* the listing the per-repo scan walks, and the position at which it stops:
\* the first PR that is merged, by the user, and merged before since
ScannedListing == ListingOf(remote, R1)
StopsScan(pr) ==
    /\ pr.merged_at # NullDate
    /\ ToLowerCase(pr.login) = ToLowerCase(options.username)
    /\ pr.merged_at < ParseDate(options.since)
StopPosition ==
    Min({i \in 1..Len(ScannedListing) : StopsScan(ScannedListing[i])}
        \cup {Len(ScannedListing) + 1})

\* C34: the per-repo scan walks the listing in order and stops at the first
\* merged PR of the user whose merge date precedes since: no PR at or after
\* that position is returned, every qualifying PR before it is, in listing
\* order, and unmerged PRs and PRs of other authors never stop the scan.
C34_ScanStopsAtFirstOldPR ==
    (pc = "done" /\ remote.faults = {}) =>
        /\ \A j \in 1..Len(result) : result[j].number < StopPosition
        /\ \A i \in 1..(StopPosition - 1) :
              Qualifies(ScannedListing[i], options.username, options.since,
                        options.until, tz)
              => \E j \in 1..Len(result) : result[j] = MakePR(R1, ScannedListing[i])
        /\ \A j, k \in 1..Len(result) : j < k => result[j].number < result[k].number
\* a scan that kept the first PR, stopped at the second and so left out
\* the third, which qualifies
C34_Witness ==
    /\ pc = "done" /\ remote.faults = {}
    /\ StopPosition = 2 /\ Len(ScannedListing) = 3
    /\ result = <<MakePR(R1, ScannedListing[1])>>
    /\ Qualifies(ScannedListing[3], options.username, options.since, options.until, tz)

\* a response that is not a rate limit: neither a 429 nor a 403 whose
\* X-RateLimit-Remaining header is "0"
NotThrottling(resp) ==
    ~(resp.status = 429 \/ (resp.status = 403 /\ resp.remaining = "0"))
\* request() ends at this response with an error of its status that is not
\* the rate-limit error, and without a backoff sleep or a retry
ThrowsAtOnce(resp) ==
    /\ reqPc' = "thrown"
    /\ reqResult' = [kind |-> "error", status |-> resp.status, rateLimit |-> FALSE]
    /\ sleeps' = sleeps /\ retryCount' = retryCount

\* C36: a 403 whose X-RateLimit-Remaining is not "0" is not throttling:
\* request does not retry it and does not sleep, it throws the error with
\* status 403, as it throws the error with the response's status for every
\* other response that is neither a 2xx nor throttling.
C36_ForbiddenIsNotThrottling ==
    [][\A resp \in Responses, l \in Latencies :
          (ReqRespond(resp, l) /\ NotThrottling(resp) /\ resp.status # 200)
          => ThrowsAtOnce(resp)]_vars
\* a call that threw the plain error with status 403 at its first response
C36_Witness ==
    /\ reqPc = "thrown" /\ reqResult.status = 403 /\ ~reqResult.rateLimit
    /\ attempts = 1 /\ sleeps = <<>>


\* the items of pages 1..k of the listing, page after page
RECURSIVE ItemsUpTo(_, _)
ItemsUpTo(site, k) ==
    IF k = 0 THEN <<>> ELSE ItemsUpTo(site, k - 1) \o PageItems(site, k)

\* C37: fetchAllPages requests the first page and then the next link of
\* each response until a response has none; it returns the items of all
\* pages concatenated in request order, and if the request of a page fails
\* the call fails and returns nothing of the pages fetched before.
C37_AllPagesInOrder ==
    /\ \A i \in 1..Len(pages.requested) : pages.requested[i] = PageUrl(i)
    /\ pages.pc = "returned" =>
          /\ Len(pages.requested) = PageCount(pages.site)
          /\ pages.site.failAt = 0
          /\ pages.returned = ItemsUpTo(pages.site, PageCount(pages.site))
    /\ pages.pc = "thrown" =>
          /\ Len(pages.requested) = pages.site.failAt
          /\ pages.returned = NoValue
    /\ pages.pc = "loop" => pages.returned = NoValue
\* a call that returned the items of three pages, the second one empty
C37_Witness ==
    /\ pages.pc = "returned" /\ PageCount(pages.site) = 3
    /\ pages.site.sizes = <<2, 0, 1>>
    /\ pages.returned = <<11, 12, 31>>


\* C35: when mergeSimilarFeatures has finished for a project, no two of
\* the features it returns have a similarity at or above the threshold.
C35_NoSimilarPairLeft ==
    clustering.pc = "returned" =>
        \A i, j \in 1..Len(clustering.merged) :
            i # j => ~AtLeast(featureSimilarity(clustering.merged[i], clustering.merged[j]),
                              similarityThreshold)

\* C38: two input features of groupFeatures with the same project, the same
\* type and the same title are in the same output Feature, whatever the
\* title's length and whatever the other features of the project.
C38_SameTitleSameFeature ==
    (gpc = "grouped" /\ features \in FeatureLists) =>
        \A i, j \in 1..Len(features) :
            (/\ features[i].project = features[j].project
             /\ features[i].type = features[j].type
             /\ features[i].title = features[j].title)
            => \E g \in OutputFeatures :
                  MergedInto(features[i], g) /\ MergedInto(features[j], g)

\* the outputs whose PR list holds the PR of the n-th input feature
HoldersOf(n) == {k \in 1..Len(clustering.merged) : n \in Range(clustering.merged[k].prs)}
\* what holds of the locals of mergeSimilarFeatures at every step
PoolShrinks ==
    /\ (clustering.pc = "outer" /\ clustering.turns > 0)
           => Len(clustering.remaining) <= clustering.before - 1
    /\ clustering.turns <= Len(clustering.input)
\* what holds of the list mergeSimilarFeatures returns
ReturnsPartition ==
    clustering.pc = "returned" =>
        /\ \A n \in 1..Len(clustering.input) : Cardinality(HoldersOf(n)) = 1
        /\ Len(clustering.input) > 0 =>
              (Len(clustering.merged) >= 1 /\ Len(clustering.merged) <= Len(clustering.input))
        /\ Len(clustering.input) = 1 => clustering.merged = clustering.input

\* C39: mergeSimilarFeatures returns for every finite input; each input
\* feature is in exactly one output feature; the pool shrinks by at least
\* one in every outer iteration; a non-empty input gives at least one and
\* at most as many outputs as inputs; a single feature is returned as is.
C39_TerminatesAndPartitions ==
    /\ <>(clustering.pc = "returned")
    /\ [](PoolShrinks /\ ReturnsPartition)
\* four features went into two outputs in two outer iterations, one of
\* which absorbed two candidates
C39_Witness ==
    /\ clustering.pc = "returned" /\ Len(clustering.input) = 4
    /\ Len(clustering.merged) = 2 /\ clustering.turns = 2
    /\ \E k \in 1..2 : Len(clustering.merged[k].prs) = 3


\* Math.ceil(a / b) for a >= 0 and b > 0
CeilDiv(a, b) == (a + b - 1) \div b
\* max(1, ceil(total_count / 100))
MostPageRequests(total) == Max({1, CeilDiv(total, perPage)})
\* after a response the loop has stopped exactly when the page was short
\* or the items gathered reach the total_count of that response
StopsWhenDue ==
    (searchLoop.requests > 0 /\ searchLoop.pc # "thrown") =>
        (searchLoop.pc = "done"
         <=> (searchLoop.size < perPage \/ searchLoop.items >= searchLoop.total))
\* while every response reports the same total_count, the page requests
\* stay within the bound
WithinBound ==
    (searchLoop.requests > 0 /\ searchLoop.steady) =>
        searchLoop.requests <= MostPageRequests(searchLoop.first)

\* C40: each page-numbered search loop stops after the first page of fewer
\* than 100 items or once the items gathered reach the reported
\* total_count; when total_count is the same on every page the loop ends,
\* after at most max(1, ceil(total_count / 100)) page requests, whatever
\* the pages hold.
C40_SearchLoopBounded ==
    /\ [](StopsWhenDue /\ WithinBound)
    /\ <>(searchLoop.pc \in {"done", "thrown"} \/ ~searchLoop.steady)
\* a loop that ended at its third request, the most a total_count of 201
\* allows
C40_Witness ==
    /\ searchLoop.pc = "done" /\ searchLoop.steady
    /\ searchLoop.first = 2 * perPage + 1 /\ searchLoop.requests = 3
    /\ searchLoop.size = perPage + 1

=============================================================================
